---- MODULE Spec2Model ----
(***************************************************************************)
(* CineCraft-AI: the storyboard compiler (src/src/bbs_commands.py), and    *)
(* the safety filter of the chat application (src/app.py).                 *)
(*                                                                         *)
(* Python dicts are TLA+ records whose DOMAIN is the set of keys present,  *)
(* so that dict.get(key, default) is Get(d, key, default).  Command texts  *)
(* are TLA+ strings; str.strip, str.startswith and the "in" substring test *)
(* are computed character by character with SubSeq.                        *)
(***************************************************************************)
EXTENDS Integers, Sequences, FiniteSets, TLC

VARIABLES
    \* ---- src/app.py ----
    g_storyboard,    \* the module global `storyboard` (app.py:28)
    fpc,             \* position of the request that uses the filter
    all_commands,    \* the list get_all_commands returned
    safe_cmds,       \* per scene: the local list safe_cmds of get_all_commands
    refiltered,      \* per scene: the filter loop applied to safe_cmds again
    \* ---- src/src/bbs_commands.py, src/src/agent.py ----
    actor_registry,  \* BBSCommandGenerator.actor_registry (bbs_commands.py:80)
    current_script,  \* AgentState.current_script (agent.py:215)
    pc,              \* position inside generate_full_script, "idle" outside it
    storyboard,      \* the argument of the running generate_full_script
    scene_idx,       \* the scene the loop of bbs_commands.py:456 is at (1-based)
    cursor,          \* the item of the scene the running inner loop is at
    seq,             \* seq.commands of the running generate_scene_commands
    result,          \* the dict `result` of the running generate_full_script
    current_tick_offset, \* bbs_commands.py:454
    raised,          \* the last generate_full_script ended with an exception
    spawned          \* history: the actor ids spawned by the running invocation

fvars == <<g_storyboard, fpc, all_commands, safe_cmds, refiltered>>

cvars == <<actor_registry, current_script, pc, storyboard, scene_idx, cursor,
           seq, result, current_tick_offset, raised, spawned>>

VARIABLES
    \* ---- src/src/rcon_client.py ----
    MCRCON_AVAILABLE, \* rcon_client.py:14-18, set when the module is imported
                     \* (FALSE before)
    rc_pc,           \* position inside execute_sequence, "idle" outside it
    rc_commands,     \* the argument `commands` of execute_sequence
    realtime,        \* the argument `realtime`
    tick_delay_ms,   \* the argument `tick_delay_ms`
    sorted_cmds,     \* rcon_client.py:138
    rc_i,            \* the index in sorted_cmds of the loop of rcon_client.py:143
    last_tick,       \* rcon_client.py:139
    results,         \* rcon_client.py:137
    submitted,       \* the transport: the texts mcr.command received, in order
    slept,           \* the clock: the time.sleep calls, in milliseconds
    cancel_requested \* the caller has asked the running sequence to stop

rvars == <<MCRCON_AVAILABLE, rc_pc, rc_commands, realtime, tick_delay_ms, sorted_cmds,
           rc_i, last_tick, results, submitted, slept, cancel_requested>>

VARIABLES
    \* ---- src/app.py: the threads monitor_logs starts ----
    t_pc,            \* per thread: position inside process_ingame_request
    t_storyboard,    \* per thread: what create_storyboard returned to it
    t_cmds,          \* per thread: the local `cmds` (app.py:465)
    t_next,          \* per thread: the index the loop of app.py:193 is at
    t_sent           \* the server: <<thread, text>> of every mcr.command of
                     \* execute_commands_realtime, in order of arrival

tvars == <<t_pc, t_storyboard, t_cmds, t_next, t_sent>>

VARIABLES
    \* ---- src/src/bbs_commands.py on input of any JSON type ----
    m_pc,            \* position of the generate_scene_commands call
    m_scene,         \* its argument: one actor with one action, or one orbit
    m_outcome,       \* "returned" or the name of the exception raised
    m_center         \* the orbit's center after _parse_pos, in tenths

mvars == <<m_pc, m_scene, m_outcome, m_center>>

VARIABLES
    \* ---- src/src/bbs_commands.py: entity resolution of one actor ----
    rs_actor,        \* the actor whose entity is resolved
    rs_done,         \* the paths that have run for it: "spawn", "selector"
    rs_entity_id,    \* entity_id of the spawn path
    rs_selector,     \* what _get_target_selector returned
    rs_registry,     \* self.actor_registry of the generator
    rs_outcome       \* the name of the exception raised, "" if none

svars == <<rs_actor, rs_done, rs_entity_id, rs_selector, rs_registry, rs_outcome>>

VARIABLES
    \* ---- src/app.py: chat, the "run" branch ----
    ch_pc,           \* position of the chat handler
    ch_cmds,         \* cmds = get_all_commands() (app.py:331)
    ch_i,            \* the command the loop of app.py:338 is at (1-based)
    ch_sent,         \* history: the commands handed to mcr.command
    ch_failed,       \* history: the index whose mcr.command raised, 0 if none
    ch_results       \* the list `results` of the branch

hvars == <<ch_pc, ch_cmds, ch_i, ch_sent, ch_failed, ch_results>>

VARIABLES
    \* ---- src/src/bbs_commands.py: pure parts run on inputs of their own ----
    u_pc,            \* "idle", "called" or "returned"
    u_input,         \* the argument of the running call
    u_output         \* what the call returned

uvars == <<u_pc, u_input, u_output>>

VARIABLES
    \* ---- src/src/agent.py: BBSAgent.state ----
    a_storyboard,    \* state.current_storyboard
    a_script,        \* state.current_script
    a_plan,          \* state.current_recording_plan, as the script it was made of
    a_last,          \* the last call: its name and whether it raised
    a_acted          \* history: the script and the storyboard of the last
                     \* export_to_files or execute_via_rcon that went through

avars == <<a_storyboard, a_script, a_plan, a_last, a_acted>>

\* the variables of the components other than the filter and the compiler
xvars == <<rvars, tvars, mvars, svars, hvars, uvars, avars>>

vars == <<fvars, cvars, xvars>>

(***************************************************************************)
(* Bounds of the model.                                                    *)
(***************************************************************************)
\* the largest number of commands a generated app.py storyboard holds
MaxCmds == 2

\* the largest number of scenes of a compiled storyboard
MaxScenes == 2

\* the latest tick of an actor's action (past the 600 ticks of a 30 s scene)
MaxTick == 700

\* the longest command list handed to execute_sequence
MaxSeqLen == 3

\* the largest number of world modifications of a scene
MaxMods == 2

\* the longest interval tick_end - tick_start of an interpolated movement
\* (below 55 ticks, the shortest on which the floating-point product
\* (tick_end - tick_start) * (i / num_frames) falls under the exact quotient)
MaxSpan == 24

(***************************************************************************)
(* Python helpers.                                                         *)
(***************************************************************************)
\* dict.get(key, default)
Get(d, key, default) == IF key \in DOMAIN d THEN d[key] ELSE default

\* s[i] of a str, 1-based
CharAt(s, i) == SubSeq(s, i, i)

\* the characters str.strip() removes (those the model's inputs can hold)
IsWhitespace(c) == c \in {" ", "\t", "\n"}

\* str.startswith(prefix)
StartsWith(s, prefix) ==
    /\ Len(s) >= Len(prefix)
    /\ SubSeq(s, 1, Len(prefix)) = prefix

\* `sub in s` for strings
Contains(s, sub) ==
    \E i \in 1..(Len(s) - Len(sub) + 1) : SubSeq(s, i, i + Len(sub) - 1) = sub

\* str.strip(): whitespace removed at both ends
RECURSIVE LStrip(_)
LStrip(s) ==
    IF Len(s) > 0 /\ IsWhitespace(CharAt(s, 1))
    THEN LStrip(SubSeq(s, 2, Len(s)))
    ELSE s

RECURSIVE RStrip(_)
RStrip(s) ==
    IF Len(s) > 0 /\ IsWhitespace(CharAt(s, Len(s)))
    THEN RStrip(SubSeq(s, 1, Len(s) - 1))
    ELSE s

Strip(s) == LStrip(RStrip(s))

\* list.extend / concatenation of a sequence of lists
RECURSIVE Flatten(_)
Flatten(ls) == IF ls = <<>> THEN <<>> ELSE Head(ls) \o Flatten(Tail(ls))

(***************************************************************************)
(* src/app.py: the safety filter inside get_all_commands.                  *)
(***************************************************************************)
\* `storyboard = None` (app.py:28)
None == [py_none |-> TRUE]

\* `not storyboard`: None and the empty dict are falsy
Falsy(sb) == sb = None \/ DOMAIN sb = {}

\* a condition that misses the nearest-player pattern inside a command
IsUnsafeOnlyAll(cmd) ==
    \/ StartsWith(Strip(cmd), "tp @")
    \/ Contains(cmd, " tp @a")

\* app.py:295, the condition that blocks a command
IsUnsafe(cmd) ==
    \/ StartsWith(Strip(cmd), "tp @")
    \/ Contains(cmd, " tp @a")
    \/ Contains(cmd, " tp @p")

\* app.py:296, the placeholder that replaces a blocked command
BlockedPlaceholder(cmd) == "# BLOCKED UNSAFE COMMAND: " \o cmd

\* a filter loop that deletes a blocked command instead of replacing it
FilterCommandsDropping(cmds) ==
    LET RECURSIVE Go(_)
        Go(rest) ==
            IF rest = <<>> THEN <<>>
            ELSE IF IsUnsafe(Head(rest)) THEN Go(Tail(rest))
            ELSE <<Head(rest)>> \o Go(Tail(rest))
    IN Go(cmds)

\* app.py:292-298, the filter loop over one scene's commands
FilterCommands(cmds) ==
    [i \in 1..Len(cmds) |->
        IF IsUnsafe(cmds[i]) THEN BlockedPlaceholder(cmds[i]) ELSE cmds[i]]

\* app.py:290, the header line of a scene
SceneHeader(scene) == "# === " \o Get(scene, "name", "Scene") \o " ==="

\* the scenes get_all_commands iterates over (app.py:289)
ScenesOf(sb) == IF Falsy(sb) THEN <<>> ELSE Get(sb, "scenes", <<>>)

\* app.py:285-300, get_all_commands
GetAllCommandsOf(sb) ==
    IF Falsy(sb) THEN <<>>
    ELSE Flatten([k \in 1..Len(ScenesOf(sb)) |->
            <<SceneHeader(ScenesOf(sb)[k])>>
                \o FilterCommands(Get(ScenesOf(sb)[k], "commands", <<>>))])

(***************************************************************************)
(* src/src/bbs_commands.py: text helpers.                                  *)
(***************************************************************************)
\* the empty dict / the empty list
EmptyDict == <<>>

UpperLetters == "ABCDEFGHIJKLMNOPQRSTUVWXYZ"

LowerLetters == "abcdefghijklmnopqrstuvwxyz"

\* str.lower() of one character
LowerChar(c) ==
    IF \E i \in 1..Len(UpperLetters) : CharAt(UpperLetters, i) = c
    THEN CharAt(LowerLetters, CHOOSE i \in 1..Len(UpperLetters) : CharAt(UpperLetters, i) = c)
    ELSE c

\* str.lower()
RECURSIVE Lower(_)
Lower(s) ==
    IF Len(s) = 0 THEN ""
    ELSE LowerChar(CharAt(s, 1)) \o Lower(SubSeq(s, 2, Len(s)))

\* str.replace(" ", "_")
RECURSIVE SpacesToUnderscores(_)
SpacesToUnderscores(s) ==
    IF Len(s) = 0 THEN ""
    ELSE (IF CharAt(s, 1) = " " THEN "_" ELSE CharAt(s, 1))
            \o SpacesToUnderscores(SubSeq(s, 2, Len(s)))

\* .lower().replace(" ", "_") (bbs_commands.py:207-208, 311-312)
Clean(s) == SpacesToUnderscores(Lower(s))

\* str.split(): the whitespace-separated words of s
RECURSIVE Split(_)
Split(s) ==
    LET t == LStrip(s)
        n == IF \E i \in 1..Len(t) : IsWhitespace(CharAt(t, i))
             THEN (CHOOSE i \in 1..Len(t) :
                      /\ IsWhitespace(CharAt(t, i))
                      /\ \A j \in 1..(i - 1) : ~IsWhitespace(CharAt(t, j))) - 1
             ELSE Len(t)
    IN IF Len(t) = 0 THEN <<>>
       ELSE <<SubSeq(t, 1, n)>> \o Split(SubSeq(t, n + 1, Len(t)))

\* an int as an f-string renders it
Show(v) == ToString(v)

\* "{p[0]} {p[1]} {p[2]}" of a list of ints
ShowTriple(p) == Show(p[1]) \o " " \o Show(p[2]) \o " " \o Show(p[3])

\* "{t[0]} {t[1]} {t[2]}" of a list of strs
JoinTriple(t) == t[1] \o " " \o t[2] \o " " \o t[3]

\* a value whose Python type the code tests is tagged with it: [list |-> l]
\* or [str |-> s]
IsList(v) == "list" \in DOMAIN v

\* floats are kept in tenths; f"{x:.1f}", and str(x) of a float with no fraction
FmtTenths(v) ==
    (IF v < 0 THEN "-" ELSE "")
        \o ToString((IF v < 0 THEN -v ELSE v) \div 10) \o "."
        \o ToString((IF v < 0 THEN -v ELSE v) % 10)

Min(a, b) == IF a <= b THEN a ELSE b

Max(a, b) == IF a >= b THEN a ELSE b

\* a BBSCommand (bbs_commands.py:15-21); to_dict keeps the same fields
\* (the description is not modelled: no command depends on it)
BBSCommand(tick, command, command_type) ==
    [tick |-> tick, command |-> command, type |-> command_type]

(***************************************************************************)
(* Scene setup: time, weather, world modifications.                        *)
(***************************************************************************)
\* bbs_commands.py:155-166
TimeCommand(scene) ==
    LET time_of_day == Get(Get(scene, "setting", EmptyDict), "time_of_day", "day")
    IN CASE time_of_day = "day" -> "time set day"
         [] time_of_day = "noon" -> "time set noon"
         [] time_of_day = "sunset" -> "time set 12000"
         [] time_of_day = "night" -> "time set night"
         [] time_of_day = "midnight" -> "time set midnight"
         [] time_of_day = "sunrise" -> "time set 23000"
         [] OTHER -> "time set day"

\* bbs_commands.py:168-177
WeatherCommand(scene) ==
    LET weather == Get(Get(scene, "setting", EmptyDict), "weather", "clear")
    IN CASE weather = "clear" -> "weather clear"
         [] weather = "rain" -> "weather rain"
         [] weather = "thunder" -> "weather thunder"
         [] weather = "storm" -> "weather thunder"
         [] OTHER -> "weather clear"

\* a rule list matched against the label as it was written
WorldModCommandCaseSensitive(mod) ==
    IF Contains(mod, "castle")
    THEN "execute at @p run place structure minecraft:pillager_outpost ~ ~ ~"
    ELSE IF Contains(mod, "village")
    THEN "execute at @p run place structure minecraft:village_plains ~ ~ ~"
    ELSE IF Contains(mod, "house")
    THEN "execute at @p run place structure minecraft:plains_village_shepherds_house_1 ~ ~ ~"
    ELSE IF Contains(mod, "tower")
    THEN "execute at @p run place structure minecraft:pillager_outpost ~ ~ ~"
    ELSE "say [Agent] World Mod: " \o mod

\* bbs_commands.py:115-128
WorldModCommand(mod) ==
    LET mod_lower == Lower(mod)
    IN IF Contains(mod_lower, "castle")
       THEN "execute at @p run place structure minecraft:pillager_outpost ~ ~ ~"
       ELSE IF Contains(mod_lower, "village")
       THEN "execute at @p run place structure minecraft:village_plains ~ ~ ~"
       ELSE IF Contains(mod_lower, "house")
       THEN "execute at @p run place structure minecraft:plains_village_shepherds_house_1 ~ ~ ~"
       ELSE IF Contains(mod_lower, "tower")
       THEN "execute at @p run place structure minecraft:pillager_outpost ~ ~ ~"
       ELSE "say [Agent] World Mod: " \o mod

\* bbs_commands.py:110-131: the commands generate_scene_commands adds itself
SetupCommands(scene) ==
    LET mods == Get(Get(scene, "setting", EmptyDict), "world_modifications", <<>>)
    IN <<BBSCommand(0, TimeCommand(scene), "minecraft"),
         BBSCommand(0, WeatherCommand(scene), "minecraft")>>
       \o [i \in 1..Len(mods) |->
            BBSCommand((i - 1) * 5, WorldModCommand(mods[i]), "minecraft")]

(***************************************************************************)
(* Entity resolution and actor actions.                                    *)
(***************************************************************************)
\* bbs_commands.py:193-205
titan_entities ==
    [titan |-> "titans:zombie_titan",
     zombie_titan |-> "titans:zombie_titan",
     creeper_titan |-> "titans:creeper_titan",
     skeleton_titan |-> "titans:skeleton_titan",
     spider_titan |-> "titans:spider_titan",
     blaze_titan |-> "titans:blaze_titan",
     ghast_titan |-> "titans:ghast_titan",
     slime_titan |-> "titans:slime_titan",
     ender_colossus |-> "titans:ender_colossus",
     witherzilla |-> "titans:witherzilla",
     ultima_iron_golem |-> "titans:ultima_iron_golem_titan"]

\* a prefix list that tries the spider first
TitanPrefixesSpiderFirst ==
    <<"spider", "zombie", "creeper", "skeleton", "blaze", "ghast", "slime">>

\* bbs_commands.py:225
TitanPrefixes == <<"zombie", "creeper", "skeleton", "spider", "blaze", "ghast", "slime">>

\* a resolver that leaves the namespace off the ids it builds from the type
\* or from the name
EntityIdUnqualified(actor_type, clean_name) ==
    IF actor_type # "unknown" /\ actor_type # "actor" /\ ~Contains(actor_type, "titan")
    THEN actor_type
    ELSE IF clean_name \in DOMAIN titan_entities
    THEN titan_entities[clean_name]
    ELSE IF Contains(clean_name, "titan")
    THEN "titans:zombie_titan"
    ELSE IF Contains(clean_name, "dragon")
    THEN "minecraft:ender_dragon"
    ELSE clean_name

\* bbs_commands.py:211-235: the entity id of a spawn
EntityId(actor_type, clean_name) ==
    IF actor_type # "unknown" /\ actor_type # "actor" /\ ~Contains(actor_type, "titan")
    THEN "minecraft:" \o actor_type
    ELSE IF clean_name \in DOMAIN titan_entities
    THEN titan_entities[clean_name]
    ELSE IF Contains(clean_name, "titan")
    THEN IF \E i \in 1..Len(TitanPrefixes) : Contains(clean_name, TitanPrefixes[i])
         THEN "titans:"
                \o TitanPrefixes[CHOOSE i \in 1..Len(TitanPrefixes) :
                      /\ Contains(clean_name, TitanPrefixes[i])
                      /\ \A j \in 1..(i - 1) : ~Contains(clean_name, TitanPrefixes[j])]
                \o "_titan"
         ELSE "titans:zombie_titan"
    ELSE IF Contains(clean_name, "dragon")
    THEN "minecraft:ender_dragon"
    ELSE "minecraft:" \o clean_name

\* bbs_commands.py:237-249: the text of a spawn command
SpawnCommand(actor_name, actor_type, entity_id) ==
    LET nbt_data ==
            IF Lower(actor_name) # actor_type /\ ~Contains(entity_id, Lower(actor_name))
            THEN "{CustomName:'{\"text\":\"" \o actor_name \o "\"}'}"
            ELSE ""
    IN IF Contains(entity_id, "ender_dragon")
       THEN "execute at @p run summon " \o entity_id \o " ~ ~ ~ {DragonPhase:0}"
       ELSE "execute at @p run summon " \o entity_id \o " ~ ~ ~ " \o nbt_data

\* bbs_commands.py:316
known_types == {"zombie", "skeleton", "creeper", "cow", "sheep", "pig", "chicken",
                "dragon", "titan"}

\* bbs_commands.py:309-330, _get_target_selector
GetTargetSelector(name, actor_type) ==
    LET clean_name == Clean(name)
        clean_type == Clean(actor_type)
        is_generic == clean_name \in known_types \/ clean_name = clean_type
        base_type == IF clean_type # "unknown" THEN clean_type ELSE clean_name
        entity_type ==
            IF Contains(clean_name, "dragon") THEN "minecraft:ender_dragon"
            ELSE IF Contains(clean_name, "titan") THEN "titans:zombie_titan"
            ELSE IF ~Contains(base_type, ":") THEN "minecraft:" \o base_type
            ELSE base_type
    IN IF is_generic \/ Contains(clean_name, "dragon")
       THEN "@e[type=" \o entity_type \o ",sort=nearest,limit=1]"
       ELSE "@e[name=\"" \o name \o "\",sort=nearest,limit=1]"

\* bbs_commands.py:297: re.match(r'[\d\s\.\-~]+', target) of a str
LooksLikeCoords(target) ==
    /\ Len(target) > 0
    /\ \/ IsWhitespace(CharAt(target, 1))
       \/ \E i \in 1..13 : CharAt("0123456789.-~", i) = CharAt(target, 1)

\* bbs_commands.py:254-305: the texts one non-spawn action adds, in order
NonSpawnTexts(actor, action) ==
    LET actor_name == Get(actor, "name", "actor")
        action_type == Get(action, "type", "idle")
        selector == GetTargetSelector(actor_name, Get(actor, "type", "unknown"))
    IN CASE action_type \in {"walk_to", "run_to"} ->
              <<"tp " \o selector \o " "
                  \o ShowTriple(Get(action, "target_position", <<0, 64, 0>>))>>
         [] action_type = "sit" ->
              IF Contains(Lower(actor_name), "camel")
              THEN <<"data merge entity " \o selector \o " {Pose:sitting}">>
              ELSE <<"data merge entity " \o selector \o " {Sitting:1b}">>
         [] action_type = "teleport" ->
              <<"tp " \o selector \o " " \o ShowTriple(Get(action, "position", <<0, 64, 0>>))>>
         [] action_type = "jump" ->
              <<"execute as " \o selector
                  \o " run data merge entity @s {Motion:[0.0d,0.6d,0.0d]}">>
         [] action_type \in {"attack", "swipe"} ->
              <<"execute at " \o selector
                  \o " run playsound entity.player.attack.strong master @a ~ ~ ~ 1 1",
                "execute as " \o selector
                  \o " run data merge entity @s {Motion:[0.0d,0.2d,0.4d]}">>
         [] action_type = "interact" ->
              <<"execute at " \o selector
                  \o " run playsound entity.villager.trade master @a ~ ~ ~ 1 1">>
         [] action_type = "look_at" ->
              LET target == Get(action, "target", [str |-> "0 0 0"])
              IN IF IsList(target)
                 THEN <<"execute as " \o selector \o " at @s run facing "
                          \o ShowTriple(target.list)>>
                 ELSE IF LooksLikeCoords(target.str)
                 THEN <<"execute as " \o selector \o " at @s run facing "
                          \o JoinTriple(Split(target.str))>>
                 ELSE <<"execute as " \o selector \o " at @s run facing entity "
                          \o GetTargetSelector(target.str, "unknown") \o " eyes">>
         [] OTHER -> <<>>

\* bbs_commands.py:186-305: the commands one action of an actor adds
ActionCommands(actor, action) ==
    LET tick == Get(action, "tick", 0)
        actor_name == Get(actor, "name", "actor")
        actor_type == Clean(Get(actor, "type", "unknown"))
        texts ==
            IF Get(action, "type", "idle") = "spawn"
            THEN <<SpawnCommand(actor_name, actor_type,
                                EntityId(actor_type, Clean(actor_name)))>>
            ELSE NonSpawnTexts(actor, action)
    IN [i \in 1..Len(texts) |-> BBSCommand(tick, texts[i], "minecraft")]

\* a registry that a teleport rewrites as a spawn does
RegistryAfterAnyAction(registry, actor, action) ==
    LET actor_id == Get(actor, "id", "actor_001")
        actor_name == Get(actor, "name", "actor")
    IN IF Get(action, "type", "idle") \in {"spawn", "teleport"}
       THEN [k \in (DOMAIN registry) \cup {actor_id} |->
                IF k = actor_id
                THEN [name |-> actor_name,
                      position |-> Get(action, "position", <<0, 64, 0>>),
                      type |-> EntityId(Clean(Get(actor, "type", "unknown")),
                                        Clean(actor_name))]
                ELSE registry[k]]
       ELSE registry

\* bbs_commands.py:252: the registry after one action of an actor
RegistryAfterAction(registry, actor, action) ==
    LET actor_id == Get(actor, "id", "actor_001")
        actor_name == Get(actor, "name", "actor")
    IN IF Get(action, "type", "idle") = "spawn"
       THEN [k \in (DOMAIN registry) \cup {actor_id} |->
                IF k = actor_id
                THEN [name |-> actor_name,
                      position |-> Get(action, "position", <<0, 64, 0>>),
                      type |-> EntityId(Clean(Get(actor, "type", "unknown")),
                                        Clean(actor_name))]
                ELSE registry[k]]
       ELSE registry

(***************************************************************************)
(* Camera movements, FOV keyframes and effects.                            *)
(***************************************************************************)
\* bbs_commands.py:82-95, _parse_pos of a list of ints: floats, kept in tenths
ParsePos(pos) == [i \in 1..Len(pos) |-> 10 * pos[i]]

\* bbs_commands.py:358 and 376: min(20, (tick_end - tick_start) // 5)
NumFrames(tick_start, tick_end) == Min(20, (tick_end - tick_start) \div 5)

\* bbs_commands.py:367 and 383: tick_start + int((tick_end - tick_start) * t)
\* with t = i / num_frames.  The model's intervals (10 and 100 ticks) are ones
\* on which the floating-point product truncates to the exact quotient.
FrameTick(tick_start, tick_end, i, num_frames) ==
    tick_start + ((tick_end - tick_start) * i) \div num_frames

\* math.cos and math.sin of math.radians(angle): the model's orbits keep
\* start_angle = end_angle = 0, the angle whose sine and cosine are exact
CosDeg(angle) == CASE angle = 0 -> 1

SinDeg(angle) == CASE angle = 0 -> 0

\* bbs_commands.py:361: start_angle + (end_angle - start_angle) * t
AngleAt(start_angle, end_angle, i, num_frames) ==
    CASE start_angle = end_angle -> start_angle

\* bbs_commands.py:359-369: frame i of an orbit
OrbitFrame(movement, i, num_frames) ==
    LET tick_start == Get(movement, "tick_start", 0)
        tick_end == Get(movement, "tick_end", 100)
        center == ParsePos(Get(movement, "center", <<0, 64, 0>>))
        radius == 10 * Get(movement, "radius", 10)
        height == 10 * Get(movement, "height", 5)
        angle == AngleAt(Get(movement, "start_angle", 0),
                         Get(movement, "end_angle", 360), i, num_frames)
        x == center[1] + radius * CosDeg(angle)
        z == center[3] + radius * SinDeg(angle)
        y == center[2] + height
    IN BBSCommand(FrameTick(tick_start, tick_end, i, num_frames),
                  "tp @p " \o FmtTenths(x) \o " " \o FmtTenths(y) \o " " \o FmtTenths(z)
                    \o " facing " \o FmtTenths(center[1]) \o " " \o FmtTenths(center[2])
                    \o " " \o FmtTenths(center[3]),
                  "camera")

\* bbs_commands.py:379-381: start + (end - start) * t, in tenths (the model's
\* positions make every frame fall on a whole tenth)
Lerp(start, end, i, num_frames) == start + ((end - start) * i) \div num_frames

\* bbs_commands.py:377-388: frame i of a dolly
DollyFrame(movement, registry, i, num_frames) ==
    LET tick_start == Get(movement, "tick_start", 0)
        tick_end == Get(movement, "tick_end", 100)
        start_pos == ParsePos(Get(movement, "start_position", <<0, 70, 0>>))
        end_pos == ParsePos(Get(movement, "end_position", <<10, 70, 0>>))
        place == FmtTenths(Lerp(start_pos[1], end_pos[1], i, num_frames)) \o " "
                    \o FmtTenths(Lerp(start_pos[2], end_pos[2], i, num_frames)) \o " "
                    \o FmtTenths(Lerp(start_pos[3], end_pos[3], i, num_frames))
    IN BBSCommand(FrameTick(tick_start, tick_end, i, num_frames),
                  IF "look_at" \in DOMAIN movement /\ movement.look_at \in DOMAIN registry
                  THEN "tp @p " \o place \o " facing entity @e[name=\""
                          \o registry[movement.look_at].name \o "\"]"
                  ELSE "tp @p " \o place,
                  "camera")

\* bbs_commands.py:341-398: one movement raises ZeroDivisionError (at
\* t = i / num_frames with num_frames = 0) or adds its commands
MovementRaises(movement) ==
    /\ Get(movement, "type", "static") \in {"orbit", "dolly"}
    /\ NumFrames(Get(movement, "tick_start", 0), Get(movement, "tick_end", 100)) = 0

MovementCommands(movement, registry) ==
    LET tick_start == Get(movement, "tick_start", 0)
        move_type == Get(movement, "type", "static")
        num_frames == NumFrames(tick_start, Get(movement, "tick_end", 100))
    IN CASE move_type = "static" ->
              <<BBSCommand(tick_start,
                           "tp @p " \o ShowTriple(Get(movement, "position", <<0, 70, 0>>)),
                           "camera")>>
         [] move_type = "orbit" ->
              [j \in 1..(num_frames + 1) |-> OrbitFrame(movement, j - 1, num_frames)]
         [] move_type = "dolly" ->
              [j \in 1..(num_frames + 1) |-> DollyFrame(movement, registry, j - 1, num_frames)]
         [] move_type = "follow" ->
              <<BBSCommand(tick_start,
                           "# Camera follows " \o Get(movement, "target", "None")
                             \o " at distance " \o Show(Get(movement, "distance", 5)),
                           "camera")>>
         [] OTHER -> <<>>

\* bbs_commands.py:401-405
FovCommand(fov_kf) ==
    BBSCommand(Get(fov_kf, "tick", 0), "# Set FOV to " \o Show(Get(fov_kf, "fov", 70)),
               "aperture")

\* bbs_commands.py:420-431
Particle(particle) ==
    CASE particle = "fire" -> "flame"
      [] particle = "magic" -> "enchant"
      [] particle = "dust" -> "dust 1 0 0 1"
      [] particle = "growth" -> "happy_villager"
      [] OTHER -> particle

\* bbs_commands.py:409-436, _generate_effect_command
EffectCommand(effect) ==
    IF Get(effect, "type", "particles") = "particles"
    THEN BBSCommand(Get(effect, "tick", 0),
                    "particle " \o Particle(Get(effect, "particle_type", "cloud")) \o " "
                      \o ShowTriple(Get(effect, "position", <<0, 64, 0>>))
                      \o " 1 1 1 0 " \o Show(Get(effect, "count", 10)),
                    "minecraft")
    ELSE BBSCommand(Get(effect, "tick", 0), "# Unknown effect", "comment")

(***************************************************************************)
(* Scene and script assembly.                                              *)
(***************************************************************************)
\* bbs_commands.py:59
TPS == 20

\* a duration that the highest command tick can lengthen (what
\* CommandSequence.add leaves when line 151 does not overwrite it)
SceneDurationMaxTick(scene, commands) ==
    LET declared == Get(scene, "duration_seconds", 30) * TPS
        RECURSIVE Highest(_)
        Highest(cs) == IF cs = <<>> THEN 0 ELSE Max(Head(cs).tick, Highest(Tail(cs)))
    IN Max(declared, Highest(commands))

\* bbs_commands.py:149-151: the duration of a compiled scene
SceneDuration(scene, commands) == Get(scene, "duration_seconds", 30) * TPS

\* an offset that skips the camera's commands
OffsetCommandsButCamera(commands, offset) ==
    [i \in 1..Len(commands) |->
        IF commands[i].type = "camera" THEN commands[i]
        ELSE [commands[i] EXCEPT !.tick = @ + offset]]

\* bbs_commands.py:460-461: every command's tick moved by the offset
OffsetCommands(commands, offset) ==
    [i \in 1..Len(commands) |-> [commands[i] EXCEPT !.tick = @ + offset]]

\* a sort that puts a command before the earlier ones of the same tick
RECURSIVE SortByTickUnstable(_)
SortByTickUnstable(commands) ==
    IF commands = <<>> THEN <<>>
    ELSE LET last == commands[Len(commands)]
             front == SortByTickUnstable(SubSeq(commands, 1, Len(commands) - 1))
             n == Cardinality({i \in 1..Len(front) : front[i].tick < last.tick})
         IN SubSeq(front, 1, n) \o <<last>> \o SubSeq(front, n + 1, Len(front))

\* bbs_commands.py:44: sorted(..., key=tick), a stable sort
RECURSIVE SortByTick(_)
SortByTick(commands) ==
    IF commands = <<>> THEN <<>>
    ELSE LET last == commands[Len(commands)]
             front == SortByTick(SubSeq(commands, 1, Len(commands) - 1))
             n == Cardinality({i \in 1..Len(front) : front[i].tick <= last.tick})
         IN SubSeq(front, 1, n) \o <<last>> \o SubSeq(front, n + 1, Len(front))

\* an entry whose start_tick is read after the offset has advanced
SceneEntryStartAfter(scene, commands, offset) ==
    [name |-> Get(scene, "name", "unnamed_scene"),
     start_tick |-> offset + SceneDuration(scene, commands),
     duration_ticks |-> SceneDuration(scene, commands),
     commands |-> SortByTick(OffsetCommands(commands, offset))]

\* bbs_commands.py:463-468: the entry of a scene in result["scenes"]
SceneEntry(scene, commands, offset) ==
    [name |-> Get(scene, "name", "unnamed_scene"),
     start_tick |-> offset,
     duration_ticks |-> SceneDuration(scene, commands),
     commands |-> SortByTick(OffsetCommands(commands, offset))]

\* the items the loops of a scene run over, per phase of generate_scene_commands
ActorSteps(scene) ==
    LET actors == Get(scene, "actors", <<>>)
    IN Flatten([a \in 1..Len(actors) |->
                  [x \in 1..Len(Get(actors[a], "actions", <<>>)) |-> <<a, x>>]])

Movements(scene) == Get(Get(scene, "camera", EmptyDict), "movements", <<>>)

FovKeyframes(scene) == Get(Get(scene, "camera", EmptyDict), "fov_keyframes", <<>>)

Effects(scene) == Get(scene, "effects", <<>>)

Phases == <<"actors", "camera", "fov", "effects", "finish">>

ItemCount(scene, phase) ==
    CASE phase = "actors" -> Len(ActorSteps(scene))
      [] phase = "camera" -> Len(Movements(scene))
      [] phase = "fov" -> Len(FovKeyframes(scene))
      [] phase = "effects" -> Len(Effects(scene))
      [] phase = "finish" -> 1

\* the first phase from Phases[n] on that has an item to run
RECURSIVE PhaseFrom(_, _)
PhaseFrom(scene, n) ==
    IF ItemCount(scene, Phases[n]) > 0 THEN Phases[n] ELSE PhaseFrom(scene, n + 1)

PhaseIndex(phase) == CHOOSE n \in 1..Len(Phases) : Phases[n] = phase

\* where the compiler stands after item `at` of `phase`
PcAfter(scene, phase, at) ==
    IF at < ItemCount(scene, phase) THEN phase
    ELSE PhaseFrom(scene, PhaseIndex(phase) + 1)

CursorAfter(scene, phase, at) ==
    IF at < ItemCount(scene, phase) THEN at + 1 ELSE 1

(***************************************************************************)
(* The storyboards the text generator may return (app.py:282): commands    *)
(* are a leading part followed by a body.                                  *)
(***************************************************************************)
CmdLeads == {"", " ", "\t", "e ", "# "}

CmdBodies == {"", "tp @p 1", "tp @a", "tp @e", "say"}

CmdChoices == {l \o b : l \in CmdLeads, b \in CmdBodies}

CmdLists == UNION {[1..n -> CmdChoices] : n \in 0..MaxCmds}

\* one scene holding all the commands, or two scenes that split them; the
\* first scene is named, the second has no "name" key
FilterStoryboards ==
    {[title |-> "t"], [scenes |-> <<[name |-> "s"]>>]}
    \cup {[scenes |-> <<[name |-> "s", commands |-> l]>>] : l \in CmdLists}
    \cup {[scenes |-> <<[name |-> "s", commands |-> SubSeq(l, 1, c)],
                        [commands |-> SubSeq(l, c + 1, Len(l))]>>] :
            <<l, c>> \in {p \in CmdLists \X (0..MaxCmds) : p[2] <= Len(p[1])}}

(***************************************************************************)
(* The filter's specification.                                             *)
(***************************************************************************)
FilterInit ==
    /\ g_storyboard = None
    /\ fpc = "idle"
    /\ all_commands = <<>>
    /\ safe_cmds = <<>>
    /\ refiltered = <<>>

\* app.py:282, create_storyboard stores what the text generator returned.  It
\* overwrites the global whatever it held, so a second call reaches no state
\* the first does not: the model takes it once.
CreateStoryboard ==
    /\ fpc = "idle"
    /\ \E sb \in FilterStoryboards : g_storyboard' = sb
    /\ fpc' = "created"
    /\ all_commands' = <<>>
    /\ safe_cmds' = <<>>
    /\ refiltered' = <<>>
    /\ UNCHANGED <<cvars, xvars>>

\* app.py:285-300, get_all_commands as called by chat "run" (app.py:331)
GetAllCommands ==
    /\ fpc \in {"idle", "created"}
    /\ all_commands' = GetAllCommandsOf(g_storyboard)
    /\ safe_cmds' = [k \in 1..Len(ScenesOf(g_storyboard)) |->
                        FilterCommands(Get(ScenesOf(g_storyboard)[k], "commands", <<>>))]
    /\ fpc' = "filtered"
    /\ UNCHANGED <<g_storyboard, refiltered>>
    /\ UNCHANGED <<cvars, xvars>>

\* the filter loop (app.py:292-298) applied to its own output
FilterAgain ==
    /\ fpc = "filtered"
    /\ refiltered' = [k \in 1..Len(safe_cmds) |-> FilterCommands(safe_cmds[k])]
    /\ fpc' = "refiltered"
    /\ UNCHANGED <<g_storyboard, all_commands, safe_cmds>>
    /\ UNCHANGED <<cvars, xvars>>

(***************************************************************************)
(* The storyboards handed to generate_full_script.                         *)
(***************************************************************************)
Zoro ==
    [id |-> "a1", name |-> "Zoro", type |-> "zombie",
     actions |-> <<[tick |-> 0, type |-> "spawn", position |-> <<1, 64, 2>>],
                   [tick |-> MaxTick, type |-> "teleport", position |-> <<5, 64, 5>>]>>]

Cow ==
    [id |-> "a2", name |-> "cow",
     actions |-> <<[type |-> "walk_to", target_position |-> <<3, 64, 3>>],
                   [tick |-> 4, type |-> "sit"],
                   [tick |-> 4, type |-> "jump"],
                   [tick |-> 8, type |-> "attack"],
                   [tick |-> 8, type |-> "interact"],
                   [tick |-> 9, type |-> "look_at", target |-> [list |-> <<0, 64, 0>>]],
                   [tick |-> 9, type |-> "look_at", target |-> [str |-> "Zoro"]],
                   [tick |-> 9, type |-> "look_at"],
                   [tick |-> 12, type |-> "morph"],
                   [tick |-> 2, type |-> "spawn"]>>]

SceneContents ==
    {[name |-> "empty"],
     [name |-> "duel", actors |-> <<Zoro>>],
     [camera |-> [movements |->
        <<[type |-> "dolly", tick_start |-> 0, tick_end |-> 10, look_at |-> "a1",
           start_position |-> <<0, 70, 0>>, end_position |-> <<1, 72, 4>>]>>]],
     [name |-> "busy",
      setting |-> [time_of_day |-> "night", weather |-> "storm",
                   world_modifications |-> <<"Ancient Castle", "pond">>],
      actors |-> <<Cow>>,
      camera |-> [movements |-> <<[tick_start |-> 3, position |-> <<0, 80, 0>>],
                                  [type |-> "follow", tick_start |-> 1],
                                  [type |-> "path"]>>,
                  fov_keyframes |-> <<[tick |-> 3, fov |-> 90]>>],
      effects |-> <<[tick |-> 6, particle_type |-> "fire"], [type |-> "sound"]>>],
     [name |-> "orbit",
      camera |-> [movements |->
        <<[type |-> "orbit", tick_start |-> 5, tick_end |-> 15, center |-> <<1, 64, 2>>,
           radius |-> 3, start_angle |-> 0, end_angle |-> 0],
          [type |-> "dolly"]>>]],
     [name |-> "still",
      camera |-> [movements |->
        <<[type |-> "dolly", tick_start |-> 10, tick_end |-> 0],
          [type |-> "orbit", tick_start |-> 0, tick_end |-> 0,
           start_angle |-> 0, end_angle |-> 0]>>]],
     [name |-> "early", effects |-> <<[tick |-> -5]>>]}

\* a scene with its duration_seconds key (20 s) or without it (30 s by default)
WithDuration(content, secs) ==
    [k \in (DOMAIN content) \cup {"duration_seconds"} |->
        IF k = "duration_seconds" THEN secs ELSE content[k]]

SceneChoices == SceneContents \cup {WithDuration(c, 20) : c \in SceneContents}

Storyboards ==
    {[title |-> "t"]}
    \cup {[scenes |-> ss] : ss \in UNION {[1..n -> SceneChoices] : n \in 0..MaxScenes}}

(***************************************************************************)
(* The compiler's specification.                                           *)
(***************************************************************************)
CompilerInit ==
    /\ actor_registry = EmptyDict
    /\ current_script = None
    /\ pc = "idle"
    /\ storyboard = None
    /\ scene_idx = 0
    /\ cursor = 0
    /\ seq = <<>>
    /\ result = None
    /\ current_tick_offset = 0
    /\ raised = FALSE
    /\ spawned = {}

Scenes == Get(storyboard, "scenes", <<>>)

Scene == Scenes[scene_idx]

\* agent.py:202-214 and bbs_commands.py:448-454: generate_commands calls
\* generate_full_script on the agent's storyboard.  The model starts a
\* compilation from a fresh or a reset agent; one started over a script kept
\* from before differs only in that kept value.
GenerateFullScript ==
    /\ pc = "idle"
    /\ storyboard = None
    /\ \E sb \in Storyboards : storyboard' = sb
    /\ result' = [title |-> Get(storyboard', "title", "Untitled"),
                  total_duration_ticks |-> 0,
                  scenes |-> <<>>]
    /\ current_tick_offset' = 0
    /\ scene_idx' = 1
    /\ cursor' = 0
    /\ seq' = <<>>
    /\ pc' = "scene"
    /\ raised' = FALSE
    /\ spawned' = {}
    /\ UNCHANGED <<actor_registry, current_script>>
    /\ UNCHANGED <<fvars, xvars>>

\* bbs_commands.py:107-131: a scene starts with its time, weather and
\* world-modification commands
SceneSetup ==
    /\ pc = "scene"
    /\ scene_idx <= Len(Scenes)
    /\ seq' = SetupCommands(Scene)
    /\ pc' = PhaseFrom(Scene, 1)
    /\ cursor' = 1
    /\ UNCHANGED <<actor_registry, current_script, storyboard, scene_idx, result,
                   current_tick_offset, raised, spawned>>
    /\ UNCHANGED <<fvars, xvars>>

\* bbs_commands.py:185-305: one action of one actor
ActorAction ==
    /\ pc = "actors"
    /\ LET actor == Get(Scene, "actors", <<>>)[ActorSteps(Scene)[cursor][1]]
           action == Get(actor, "actions", <<>>)[ActorSteps(Scene)[cursor][2]]
       IN /\ seq' = seq \o ActionCommands(actor, action)
          /\ actor_registry' = RegistryAfterAction(actor_registry, actor, action)
          /\ spawned' = IF Get(action, "type", "idle") = "spawn"
                        THEN spawned \cup {Get(actor, "id", "actor_001")}
                        ELSE spawned
    /\ pc' = PcAfter(Scene, "actors", cursor)
    /\ cursor' = CursorAfter(Scene, "actors", cursor)
    /\ UNCHANGED <<current_script, storyboard, scene_idx, result, current_tick_offset,
                   raised>>
    /\ UNCHANGED <<fvars, xvars>>

\* bbs_commands.py:340-398: one camera movement that adds its commands
CameraMovement ==
    /\ pc = "camera"
    /\ ~MovementRaises(Movements(Scene)[cursor])
    /\ seq' = seq \o MovementCommands(Movements(Scene)[cursor], actor_registry)
    /\ pc' = PcAfter(Scene, "camera", cursor)
    /\ cursor' = CursorAfter(Scene, "camera", cursor)
    /\ UNCHANGED <<actor_registry, current_script, storyboard, scene_idx, result,
                   current_tick_offset, raised, spawned>>
    /\ UNCHANGED <<fvars, xvars>>

\* bbs_commands.py:360 and 378: ZeroDivisionError leaves generate_full_script
\* and generate_commands (agent.py:214) without a script
CameraMovementRaises ==
    /\ pc = "camera"
    /\ MovementRaises(Movements(Scene)[cursor])
    /\ pc' = "idle"
    /\ raised' = TRUE
    /\ result' = None
    /\ seq' = <<>>
    /\ scene_idx' = 0
    /\ cursor' = 0
    /\ current_tick_offset' = 0
    /\ UNCHANGED <<actor_registry, current_script, storyboard, spawned>>
    /\ UNCHANGED <<fvars, xvars>>

\* bbs_commands.py:401-405: one FOV keyframe
FovKeyframe ==
    /\ pc = "fov"
    /\ seq' = seq \o <<FovCommand(FovKeyframes(Scene)[cursor])>>
    /\ pc' = PcAfter(Scene, "fov", cursor)
    /\ cursor' = CursorAfter(Scene, "fov", cursor)
    /\ UNCHANGED <<actor_registry, current_script, storyboard, scene_idx, result,
                   current_tick_offset, raised, spawned>>
    /\ UNCHANGED <<fvars, xvars>>

\* bbs_commands.py:145-147: one effect
Effect ==
    /\ pc = "effects"
    /\ seq' = seq \o <<EffectCommand(Effects(Scene)[cursor])>>
    /\ pc' = PcAfter(Scene, "effects", cursor)
    /\ cursor' = CursorAfter(Scene, "effects", cursor)
    /\ UNCHANGED <<actor_registry, current_script, storyboard, scene_idx, result,
                   current_tick_offset, raised, spawned>>
    /\ UNCHANGED <<fvars, xvars>>

\* bbs_commands.py:149-153 and 460-470: the scene gets its duration, its
\* commands are offset and sorted into the result, the offset advances
FinishScene ==
    /\ pc = "finish"
    /\ result' = [result EXCEPT
                    !.scenes = @ \o <<SceneEntry(Scene, seq, current_tick_offset)>>]
    /\ current_tick_offset' = current_tick_offset + SceneDuration(Scene, seq)
    /\ scene_idx' = scene_idx + 1
    /\ seq' = <<>>
    /\ cursor' = 0
    /\ pc' = "scene"
    /\ UNCHANGED <<actor_registry, current_script, storyboard, raised, spawned>>
    /\ UNCHANGED <<fvars, xvars>>

\* bbs_commands.py:472-475 and agent.py:215: the script is returned and kept
\* (total_duration_seconds, the same offset divided by TPS, is left out)
ReturnScript ==
    /\ pc = "scene"
    /\ scene_idx > Len(Scenes)
    /\ current_script' = [result EXCEPT !.total_duration_ticks = current_tick_offset]
    /\ pc' = "idle"
    /\ result' = None
    /\ scene_idx' = 0
    /\ current_tick_offset' = 0
    /\ UNCHANGED <<actor_registry, storyboard, cursor, seq, raised, spawned>>
    /\ UNCHANGED <<fvars, xvars>>

\* agent.py:384-388: reset replaces the agent's state; the command generator
\* and its registry are not touched
Reset ==
    /\ pc = "idle"
    /\ storyboard # None
    /\ current_script' = None
    /\ storyboard' = None
    /\ raised' = FALSE
    /\ spawned' = {}
    /\ cursor' = 0
    /\ UNCHANGED <<actor_registry, pc, scene_idx, seq, result, current_tick_offset>>
    /\ UNCHANGED <<fvars, xvars>>

(***************************************************************************)
(* src/src/rcon_client.py: execute_sequence, the scheduler that sends a     *)
(* command list to the server.  The transport (mcrcon) is the environment: *)
(* opening the connection and each mcr.command call succeed or raise.      *)
(***************************************************************************)
\* rcon_client.py:26-32
CommandResult(success, response, tick, command) ==
    [success |-> success, response |-> response, tick |-> tick, command |-> command]

\* the order of the input list kept
UnsortedCmds(cmds) == cmds

\* rcon_client.py:138: sorted(commands, key=lambda x: x.get('tick', 0)), stable
RECURSIVE SortedCmds(_)
SortedCmds(cmds) ==
    IF cmds = <<>> THEN <<>>
    ELSE LET front == SortedCmds(SubSeq(cmds, 1, Len(cmds) - 1))
             last == cmds[Len(cmds)]
             n == Cardinality({i \in 1..Len(front) :
                                 Get(front[i], "tick", 0) <= Get(last, "tick", 0)})
         IN SubSeq(front, 1, n) \o <<last>> \o SubSeq(front, n + 1, Len(front))

\* rcon_client.py:144-145: the tick and the text of the command the loop is at
CmdTick == Get(sorted_cmds[rc_i], "tick", 0)

CmdText == Get(sorted_cmds[rc_i], "command", "")

\* no text is a comment
NeverComment(text) == FALSE

\* rcon_client.py:153: command.startswith('#')
IsComment(text) == StartsWith(text, "#")

\* a cursor that follows every command, skipped ones too
LastTickAfterAny(submits, tick, cursor_tick) == tick

\* rcon_client.py:155 and 163: `continue` leaves last_tick as it is, a
\* submission moves it to the command's tick
LastTickAfter(submits, tick, cursor_tick) == IF submits THEN tick ELSE cursor_tick

\* where the loop stands after the command at index i
AfterCommand(i) == IF i < Len(sorted_cmds) THEN "pace" ELSE "exit"

\* a loop that a raising mcr.command ends
AfterSubmitAborting(ok, i) == IF ok THEN AfterCommand(i) ELSE "exit"

\* rcon_client.py:157-163: the inner try catches what mcr.command raises, and
\* the loop goes on to the next command either way
AfterSubmit(ok, i) == AfterCommand(i)

\* the command lists handed to execute_sequence: script commands as
\* to_dict gives them, and dicts without a 'tick' or without a 'command' key
SeqCommands ==
    {[tick |-> 0, command |-> "say a"],
     [tick |-> 20, command |-> "say b"],
     [tick |-> 40, command |-> "say c"],
     [tick |-> 20, command |-> "# Camera follows None at distance 5"],
     [command |-> "say d"],
     [tick |-> 20]}

SeqLists == UNION {[1..n -> SeqCommands] : n \in 0..MaxSeqLen}

RconInit ==
    /\ MCRCON_AVAILABLE = FALSE
    /\ rc_pc = "unloaded"
    /\ rc_commands = <<>>
    /\ realtime = TRUE
    /\ tick_delay_ms = 50
    /\ sorted_cmds = <<>>
    /\ rc_i = 0
    /\ last_tick = 0
    /\ results = <<>>
    /\ submitted = <<>>
    /\ slept = <<>>
    /\ cancel_requested = FALSE

\* rcon_client.py:14-18: importing the module finds the mcrcon library or not
ImportModule ==
    /\ rc_pc = "unloaded"
    /\ MCRCON_AVAILABLE' \in BOOLEAN
    /\ rc_pc' = "idle"
    /\ UNCHANGED <<rc_commands, realtime, tick_delay_ms, sorted_cmds, rc_i, last_tick,
                   results, submitted, slept, cancel_requested>>
    /\ UNCHANGED <<fvars, cvars, tvars, mvars, svars, hvars, uvars, avars>>

\* rcon_client.py:117-139: the call; without the mcrcon library it returns at
\* once (134-135).  tick_delay_ms keeps its default, 50.
ExecuteSequence ==
    /\ rc_pc = "idle"
    /\ \E cmds \in SeqLists, rt \in BOOLEAN :
          /\ rc_commands' = cmds
          /\ realtime' = rt
          /\ sorted_cmds' = IF MCRCON_AVAILABLE THEN SortedCmds(cmds) ELSE <<>>
    /\ tick_delay_ms' = 50
    /\ results' = IF MCRCON_AVAILABLE THEN <<>>
                  ELSE <<CommandResult(FALSE, "RCON not available", 0, "")>>
    /\ rc_pc' = IF MCRCON_AVAILABLE THEN "connect" ELSE "returned"
    /\ last_tick' = 0
    /\ rc_i' = 0
    /\ UNCHANGED <<MCRCON_AVAILABLE, submitted, slept, cancel_requested>>
    /\ UNCHANGED <<fvars, cvars, tvars, mvars, svars, hvars, uvars, avars>>

\* rcon_client.py:142: the connection opens
ConnectOk ==
    /\ rc_pc = "connect"
    /\ rc_pc' = IF sorted_cmds = <<>> THEN "exit" ELSE "pace"
    /\ rc_i' = 1
    /\ UNCHANGED <<MCRCON_AVAILABLE, rc_commands, realtime, tick_delay_ms, sorted_cmds,
                   last_tick, results, submitted, slept, cancel_requested>>
    /\ UNCHANGED <<fvars, cvars, tvars, mvars, svars, hvars, uvars, avars>>

\* rcon_client.py:142 and 165-168: the connection does not open
ConnectFails ==
    /\ rc_pc = "connect"
    /\ results' = Append(results, CommandResult(FALSE, "Connection error: err", 0, ""))
    /\ rc_pc' = "returned"
    /\ UNCHANGED <<MCRCON_AVAILABLE, rc_commands, realtime, tick_delay_ms, sorted_cmds,
                   rc_i, last_tick, submitted, slept, cancel_requested>>
    /\ UNCHANGED <<fvars, cvars, tvars, mvars, svars, hvars, uvars, avars>>

\* rcon_client.py:147-150: the wait before a command, (tick - last_tick) *
\* tick_delay_ms / 1000.0 seconds, kept in milliseconds
Pace ==
    /\ rc_pc = "pace"
    /\ slept' = IF realtime /\ CmdTick > last_tick
                THEN Append(slept, [before |-> rc_i,
                                    ms |-> (CmdTick - last_tick) * tick_delay_ms])
                ELSE slept
    /\ rc_pc' = "send"
    /\ UNCHANGED <<MCRCON_AVAILABLE, rc_commands, realtime, tick_delay_ms, sorted_cmds,
                   rc_i, last_tick, results, submitted, cancel_requested>>
    /\ UNCHANGED <<fvars, cvars, tvars, mvars, svars, hvars, uvars, avars>>

\* rcon_client.py:152-155: a comment is recorded and not sent
Skip ==
    /\ rc_pc = "send"
    /\ IsComment(CmdText)
    /\ results' = Append(results, CommandResult(TRUE, "Skipped", CmdTick, CmdText))
    /\ last_tick' = LastTickAfter(FALSE, CmdTick, last_tick)
    /\ rc_pc' = AfterCommand(rc_i)
    /\ rc_i' = rc_i + 1
    /\ UNCHANGED <<MCRCON_AVAILABLE, rc_commands, realtime, tick_delay_ms, sorted_cmds,
                   submitted, slept, cancel_requested>>
    /\ UNCHANGED <<fvars, cvars, tvars, mvars, svars, hvars, uvars, avars>>

\* rcon_client.py:157-163: the command is sent and the server answers
SubmitOk ==
    /\ rc_pc = "send"
    /\ ~IsComment(CmdText)
    /\ submitted' = Append(submitted, [at |-> rc_i, command |-> CmdText])
    /\ results' = Append(results, CommandResult(TRUE, "ok", CmdTick, CmdText))
    /\ last_tick' = LastTickAfter(TRUE, CmdTick, last_tick)
    /\ rc_pc' = AfterSubmit(TRUE, rc_i)
    /\ rc_i' = rc_i + 1
    /\ UNCHANGED <<MCRCON_AVAILABLE, rc_commands, realtime, tick_delay_ms, sorted_cmds,
                   slept, cancel_requested>>
    /\ UNCHANGED <<fvars, cvars, tvars, mvars, svars, hvars, uvars, avars>>

\* rcon_client.py:157-163: the command is sent and mcr.command raises
SubmitFails ==
    /\ rc_pc = "send"
    /\ ~IsComment(CmdText)
    /\ submitted' = Append(submitted, [at |-> rc_i, command |-> CmdText])
    /\ results' = Append(results, CommandResult(FALSE, "err", CmdTick, CmdText))
    /\ last_tick' = LastTickAfter(TRUE, CmdTick, last_tick)
    /\ rc_pc' = AfterSubmit(FALSE, rc_i)
    /\ rc_i' = rc_i + 1
    /\ UNCHANGED <<MCRCON_AVAILABLE, rc_commands, realtime, tick_delay_ms, sorted_cmds,
                   slept, cancel_requested>>
    /\ UNCHANGED <<fvars, cvars, tvars, mvars, svars, hvars, uvars, avars>>

\* rcon_client.py:142 and 168: the connection closes, the results are returned
ReturnResults ==
    /\ rc_pc = "exit"
    /\ rc_pc' = "returned"
    /\ UNCHANGED <<MCRCON_AVAILABLE, rc_commands, realtime, tick_delay_ms, sorted_cmds,
                   rc_i, last_tick, results, submitted, slept, cancel_requested>>
    /\ UNCHANGED <<fvars, cvars, tvars, mvars, svars, hvars, uvars, avars>>

\* the caller asks the running sequence to stop.  execute_sequence
\* (rcon_client.py:117-168) has no parameter, flag or check that receives it.
RequestCancel ==
    /\ rc_pc \in {"pace", "send"}
    /\ ~cancel_requested
    /\ cancel_requested' = TRUE
    /\ UNCHANGED <<MCRCON_AVAILABLE, rc_pc, rc_commands, realtime, tick_delay_ms,
                   sorted_cmds, rc_i, last_tick, results, submitted, slept>>
    /\ UNCHANGED <<fvars, cvars, tvars, mvars, svars, hvars, uvars, avars>>

(***************************************************************************)
(* src/app.py: process_ingame_request, run by one thread per "!agent" line *)
(* of the server log (monitor_logs, app.py:501-507).  The threads share    *)
(* the module global `storyboard`.                                         *)
(***************************************************************************)
Threads == {"t1", "t2"}

\* what the text generator may return for an in-game request
IngameStoryboards ==
    {[title |-> "x", scenes |-> <<[name |-> "x", commands |-> <<"say x", "tp @p 1">>]>>],
     [title |-> "y", scenes |-> <<[name |-> "y", commands |-> <<"say y">>],
                                  [commands |-> <<"", "say z">>]>>],
     [title |-> "w", scenes |-> <<[name |-> "w",
                                   commands |-> <<" tp @a 0 0 0", "say w",
                                                  "execute run tp @p ~ ~ ~">>]>>],
     [title |-> "z"]}

\* a loop that passes over blank lines only
IsSkippedLineBlankOnly(cmd) == Strip(cmd) = ""

\* app.py:194: a comment or a blank line is not sent
IsSkippedLine(cmd) == StartsWith(cmd, "#") \/ Strip(cmd) = ""

IngameInit ==
    /\ t_pc = [t \in Threads |-> "none"]
    /\ t_storyboard = [t \in Threads |-> None]
    /\ t_cmds = [t \in Threads |-> <<>>]
    /\ t_next = [t \in Threads |-> 0]
    /\ t_sent = <<>>

\* app.py:501-507: a chat line matches and its thread starts
StartThread ==
    \E t \in Threads :
        /\ t_pc[t] = "none"
        /\ t_pc' = [t_pc EXCEPT ![t] = "create"]
        /\ UNCHANGED <<t_storyboard, t_cmds, t_next, t_sent>>
        /\ UNCHANGED <<fvars, cvars, rvars, mvars, svars, hvars, uvars, avars>>

\* app.py:282: create_storyboard stores the answer in the global and returns it
ThreadCreate ==
    \E t \in Threads :
        /\ t_pc[t] = "create"
        /\ \E sb \in IngameStoryboards :
              /\ g_storyboard' = sb
              /\ t_storyboard' = [t_storyboard EXCEPT ![t] = sb]
        /\ t_pc' = [t_pc EXCEPT ![t] = "assign"]
        /\ UNCHANGED <<t_cmds, t_next, t_sent>>
        /\ UNCHANGED <<fpc, all_commands, safe_cmds, refiltered>>
        /\ UNCHANGED <<cvars, rvars, mvars, svars, hvars, uvars, avars>>

\* app.py:434: the returned storyboard is assigned to the global
ThreadAssign ==
    \E t \in Threads :
        /\ t_pc[t] = "assign"
        /\ g_storyboard' = t_storyboard[t]
        /\ t_pc' = [t_pc EXCEPT ![t] = "collect"]
        /\ UNCHANGED <<t_storyboard, t_cmds, t_next, t_sent>>
        /\ UNCHANGED <<fpc, all_commands, safe_cmds, refiltered>>
        /\ UNCHANGED <<cvars, rvars, mvars, svars, hvars, uvars, avars>>

\* app.py:465: cmds = get_all_commands(), which reads the global
ThreadCollect ==
    \E t \in Threads :
        /\ t_pc[t] = "collect"
        /\ t_cmds' = [t_cmds EXCEPT ![t] = GetAllCommandsOf(g_storyboard)]
        /\ t_next' = [t_next EXCEPT ![t] = 1]
        /\ t_pc' = [t_pc EXCEPT ![t] = IF GetAllCommandsOf(g_storyboard) = <<>>
                                         THEN "done" ELSE "execute"]
        /\ UNCHANGED <<t_storyboard, t_sent>>
        /\ UNCHANGED <<fvars, cvars, rvars, mvars, svars, hvars, uvars, avars>>

\* app.py:193-198: one round of the loop of execute_commands_realtime
ThreadExecute ==
    \E t \in Threads :
        /\ t_pc[t] = "execute"
        /\ t_sent' = IF IsSkippedLine(t_cmds[t][t_next[t]]) THEN t_sent
                     ELSE Append(t_sent, <<t, t_cmds[t][t_next[t]]>>)
        /\ t_next' = [t_next EXCEPT ![t] = @ + 1]
        /\ t_pc' = [t_pc EXCEPT ![t] = IF t_next[t] < Len(t_cmds[t])
                                         THEN "execute" ELSE "done"]
        /\ UNCHANGED <<t_storyboard, t_cmds>>
        /\ UNCHANGED <<fvars, cvars, rvars, mvars, svars, hvars, uvars, avars>>

\* app.py:196 and 199-200: mcr.command raises and the loop is left
ThreadTransportFails ==
    \E t \in Threads :
        /\ t_pc[t] = "execute"
        /\ ~IsSkippedLine(t_cmds[t][t_next[t]])
        /\ t_pc' = [t_pc EXCEPT ![t] = "done"]
        /\ UNCHANGED <<t_storyboard, t_cmds, t_next, t_sent>>
        /\ UNCHANGED <<fvars, cvars, rvars, mvars, svars, hvars, uvars, avars>>

(***************************************************************************)
(* src/app.py: chat.  A story message stores a storyboard in the global,   *)
(* the message "run" sends the global's commands to the server.  The       *)
(* handler runs beside the threads of process_ingame_request and shares    *)
(* the global with them.                                                   *)
(***************************************************************************)
ChatInit ==
    /\ ch_pc = "idle"
    /\ ch_cmds = <<>>
    /\ ch_i = 0
    /\ ch_sent = <<>>
    /\ ch_failed = 0
    /\ ch_results = <<>>

\* app.py:371: a story message; create_storyboard's answer becomes the global
ChatStory ==
    /\ ch_pc = "idle"
    /\ \E sb \in IngameStoryboards : g_storyboard' = sb
    /\ ch_pc' = "told"
    /\ UNCHANGED <<ch_cmds, ch_i, ch_sent, ch_failed, ch_results>>
    /\ UNCHANGED <<fpc, all_commands, safe_cmds, refiltered>>
    /\ UNCHANGED <<cvars, rvars, tvars, mvars, svars, uvars, avars>>

\* app.py:326-328: "run" without a storyboard
ChatRunRefused ==
    /\ ch_pc \in {"idle", "told"}
    /\ Falsy(g_storyboard)
    /\ ch_pc' = "done"
    /\ UNCHANGED <<ch_cmds, ch_i, ch_sent, ch_failed, ch_results>>
    /\ UNCHANGED <<fvars, cvars, rvars, tvars, mvars, svars, uvars, avars>>

\* app.py:329-332: "run" collects the commands of the global
ChatRunCollect ==
    /\ ch_pc \in {"idle", "told"}
    /\ ~Falsy(g_storyboard)
    /\ ch_cmds' = GetAllCommandsOf(g_storyboard)
    /\ ch_i' = 1
    /\ ch_pc' = "connect"
    /\ UNCHANGED <<ch_sent, ch_failed, ch_results>>
    /\ UNCHANGED <<fvars, cvars, rvars, tvars, mvars, svars, uvars, avars>>

\* app.py:337: the connection opens
ChatConnectOk ==
    /\ ch_pc = "connect"
    /\ ch_pc' = "loop"
    /\ UNCHANGED <<ch_cmds, ch_i, ch_sent, ch_failed, ch_results>>
    /\ UNCHANGED <<fvars, cvars, rvars, tvars, mvars, svars, uvars, avars>>

\* app.py:337, 349-350: the connection cannot be opened
ChatConnectFails ==
    /\ ch_pc = "connect"
    /\ ch_results' = Append(ch_results, [kind |-> "error"])
    /\ ch_pc' = "done"
    /\ UNCHANGED <<ch_cmds, ch_i, ch_sent, ch_failed>>
    /\ UNCHANGED <<fvars, cvars, rvars, tvars, mvars, svars, uvars, avars>>

\* app.py:339-343: a comment or a blank line is not sent; a placeholder of
\* the filter is shown
ChatSkip ==
    /\ ch_pc = "loop"
    /\ ch_i <= Len(ch_cmds)
    /\ IsSkippedLine(ch_cmds[ch_i])
    /\ ch_results' = IF Contains(ch_cmds[ch_i], "BLOCKED")
                     THEN Append(ch_results,
                                 [kind |-> "blocked",
                                  text |-> SubSeq(ch_cmds[ch_i], 3, Len(ch_cmds[ch_i]))])
                     ELSE ch_results
    /\ ch_i' = ch_i + 1
    /\ UNCHANGED <<ch_pc, ch_cmds, ch_sent, ch_failed>>
    /\ UNCHANGED <<fvars, cvars, rvars, tvars, mvars, svars, uvars, avars>>

\* app.py:345-348: a command is sent and answered
ChatSubmit ==
    /\ ch_pc = "loop"
    /\ ch_i <= Len(ch_cmds)
    /\ ~IsSkippedLine(ch_cmds[ch_i])
    /\ ch_sent' = Append(ch_sent, ch_cmds[ch_i])
    /\ ch_results' = Append(ch_results, [kind |-> "ok", text |-> ch_cmds[ch_i]])
    /\ ch_i' = ch_i + 1
    /\ UNCHANGED <<ch_pc, ch_cmds, ch_failed>>
    /\ UNCHANGED <<fvars, cvars, rvars, tvars, mvars, svars, uvars, avars>>

\* app.py:346, 349-350: mcr.command raises; the except clause is outside
\* the loop
ChatSubmitFails ==
    /\ ch_pc = "loop"
    /\ ch_i <= Len(ch_cmds)
    /\ ~IsSkippedLine(ch_cmds[ch_i])
    /\ ch_sent' = Append(ch_sent, ch_cmds[ch_i])
    /\ ch_failed' = ch_i
    /\ ch_results' = Append(ch_results, [kind |-> "error"])
    /\ ch_pc' = "done"
    /\ UNCHANGED <<ch_cmds, ch_i>>
    /\ UNCHANGED <<fvars, cvars, rvars, tvars, mvars, svars, uvars, avars>>

\* app.py:338, 352-353: the loop ends and the answer is given
ChatRespond ==
    /\ ch_pc = "loop"
    /\ ch_i > Len(ch_cmds)
    /\ ch_pc' = "done"
    /\ UNCHANGED <<ch_cmds, ch_i, ch_sent, ch_failed, ch_results>>
    /\ UNCHANGED <<fvars, cvars, rvars, tvars, mvars, svars, uvars, avars>>

(***************************************************************************)
(* src/src/bbs_commands.py: the world modifications of a scene, compiled   *)
(* from every list of labels.                                              *)
(***************************************************************************)
ModLabels ==
    {"ancient castle", "Castle Village", "village house", "House Tower", "TOWER",
     "tower of the castle", "pond", ""}

ModLists == UNION {[1..n -> ModLabels] : n \in 0..MaxMods}

PureInit ==
    /\ u_pc = "idle"
    /\ u_input = None
    /\ u_output = None

\* bbs_commands.py:97-107: generate_scene_commands is called on a scene that
\* has a setting only
CallWithWorldMods ==
    /\ u_pc = "idle"
    /\ u_input = None
    /\ \E mods \in ModLists : u_input' = [setting |-> [world_modifications |-> mods]]
    /\ u_pc' = "called"
    /\ UNCHANGED u_output
    /\ UNCHANGED <<fvars, cvars, rvars, tvars, mvars, svars, hvars, avars>>

\* bbs_commands.py:110-153: it returns the sequence
ReturnWorldMods ==
    /\ u_pc = "called"
    /\ "setting" \in DOMAIN u_input
    /\ u_output' = SetupCommands(u_input)
    /\ u_pc' = "returned"
    /\ UNCHANGED u_input
    /\ UNCHANGED <<fvars, cvars, rvars, tvars, mvars, svars, hvars, avars>>

(***************************************************************************)
(* src/src/bbs_commands.py: one orbit or dolly, compiled from every        *)
(* interval of ticks.                                                      *)
(***************************************************************************)
\* tick_end - tick_start; negative ones included
Spans == (0 - 5)..MaxSpan

InterpolatedMovements ==
    {[type |-> "orbit", tick_start |-> ts, tick_end |-> ts + d,
      start_angle |-> 0, end_angle |-> 0] : ts \in {0, 7}, d \in Spans}
    \cup {[type |-> "dolly", tick_start |-> ts, tick_end |-> ts + d,
           start_position |-> <<0, 70, 0>>, end_position |-> <<0, 70, 0>>] :
            ts \in {0, 7}, d \in Spans}

\* bbs_commands.py:333-343: _generate_camera_commands is called on a camera
\* of one movement
CallWithMovement ==
    /\ u_pc = "idle"
    /\ u_input = None
    /\ \E m \in InterpolatedMovements : u_input' = [movements |-> <<m>>]
    /\ u_pc' = "called"
    /\ UNCHANGED u_output
    /\ UNCHANGED <<fvars, cvars, rvars, tvars, mvars, svars, hvars, avars>>

\* bbs_commands.py:350-388, 407: it returns the keyframes
ReturnKeyframes ==
    /\ u_pc = "called"
    /\ "movements" \in DOMAIN u_input
    /\ ~MovementRaises(u_input.movements[1])
    /\ u_output' = MovementCommands(u_input.movements[1], EmptyDict)
    /\ u_pc' = "returned"
    /\ UNCHANGED u_input
    /\ UNCHANGED <<fvars, cvars, rvars, tvars, mvars, svars, hvars, avars>>

\* bbs_commands.py:360, 378: ZeroDivisionError leaves it
KeyframesRaise ==
    /\ u_pc = "called"
    /\ "movements" \in DOMAIN u_input
    /\ MovementRaises(u_input.movements[1])
    /\ u_pc' = "raised"
    /\ UNCHANGED <<u_input, u_output>>
    /\ UNCHANGED <<fvars, cvars, rvars, tvars, mvars, svars, hvars, avars>>

(***************************************************************************)
(* src/src/bbs_commands.py on malformed input.  A JSON value carries its   *)
(* Python type: [t |-> "none"], [t |-> "int", v |-> 5], [t |-> "str",      *)
(* v |-> "x"], [t |-> "list", v |-> <<...>>]; an absent key is a key not    *)
(* in the record.  What is computed is whether the call returns, and which *)
(* exception leaves it otherwise.                                          *)
(***************************************************************************)
PyNone == [t |-> "none"]

PyInt(n) == [t |-> "int", v |-> n]

PyStr(str) == [t |-> "str", v |-> str]

PyList(l) == [t |-> "list", v |-> l]

\* the first exception of a sequence of evaluations ("" is: none raised)
RECURSIVE FirstRaised(_)
FirstRaised(es) ==
    IF es = <<>> THEN ""
    ELSE IF Head(es) # "" THEN Head(es) ELSE FirstRaised(Tail(es))

\* the strings float() accepts among those the model uses, in tenths
FloatOfStr == [str \in {"0", "3", "5"} |-> CASE str = "0" -> 0
                                               [] str = "3" -> 30
                                               [] str = "5" -> 50]

\* float(x): what it raises
FloatRaises(x) ==
    CASE x.t = "int" -> ""
      [] x.t = "str" -> IF x.v \in DOMAIN FloatOfStr THEN "" ELSE "ValueError"
      [] OTHER -> "TypeError"

\* str.replace("~", "")
RECURSIVE RemoveTildes(_)
RemoveTildes(str) ==
    IF str = "" THEN ""
    ELSE IF CharAt(str, 1) = "~" THEN RemoveTildes(SubSeq(str, 2, Len(str)))
    ELSE CharAt(str, 1) \o RemoveTildes(SubSeq(str, 2, Len(str)))

\* bbs_commands.py:86-94: one coordinate, in tenths; 0.0 where float() raises
ParseCoord(x) ==
    CASE x.t = "str" ->
            LET val == IF RemoveTildes(x.v) = "" THEN "0" ELSE RemoveTildes(x.v)
            IN IF val \in DOMAIN FloatOfStr THEN FloatOfStr[val] ELSE 0
      [] x.t = "int" -> 10 * x.v
      [] OTHER -> 0

\* bbs_commands.py:82-95, _parse_pos of a list
ParsePosAny(pos) == [i \in 1..Len(pos.v) |-> ParseCoord(pos.v[i])]

\* x[0], x[1], x[2] of a list or of None: what it raises
IndexRaises(x) ==
    CASE x.t = "none" -> "TypeError"
      [] x.t = "list" -> IF Len(x.v) < 3 THEN "IndexError" ELSE ""
      [] OTHER -> ""

\* x.lower(): what it raises
LowerRaises(x) == IF x.t = "str" THEN "" ELSE "AttributeError"

\* bbs_commands.py:294-303: what a look_at action raises
LookAtRaises(target) ==
    CASE target.t = "list" -> IndexRaises(target)
      [] target.t = "str" /\ LooksLikeCoords(target.v) ->
            IF Len(Split(target.v)) < 3 THEN "IndexError" ELSE ""
      [] OTHER -> LowerRaises(target)

\* bbs_commands.py:182-305: what one action of an actor raises
ActionRaises(actor, action) ==
    LET actor_name == Get(actor, "name", PyStr("actor"))
        actor_type == Get(actor, "type", PyStr("unknown"))
        action_type == Get(action, "type", PyStr("idle"))
    IN IF action_type = PyStr("spawn")
       THEN FirstRaised(<<LowerRaises(actor_type), LowerRaises(actor_name)>>)
       ELSE FirstRaised(
              <<LowerRaises(actor_name), LowerRaises(actor_type),
                CASE action_type \in {PyStr("walk_to"), PyStr("run_to")} ->
                        IndexRaises(Get(action, "target_position",
                                        PyList(<<PyInt(0), PyInt(64), PyInt(0)>>)))
                  [] action_type = PyStr("teleport") ->
                        IndexRaises(Get(action, "position",
                                        PyList(<<PyInt(0), PyInt(64), PyInt(0)>>)))
                  [] action_type = PyStr("look_at") ->
                        LookAtRaises(Get(action, "target", PyStr("0 0 0")))
                  [] OTHER -> "">>)

\* bbs_commands.py:351-364: what an orbit raises (tick_start and tick_end
\* keep their defaults, 0 and 100: the loop runs)
OrbitRaises(movement) ==
    LET center == Get(movement, "center", PyList(<<PyInt(0), PyInt(64), PyInt(0)>>))
    IN FirstRaised(<<IF center.t = "list" THEN "" ELSE "TypeError",
                     FloatRaises(Get(movement, "radius", PyInt(10))),
                     FloatRaises(Get(movement, "start_angle", PyInt(0))),
                     FloatRaises(Get(movement, "end_angle", PyInt(360))),
                     FloatRaises(Get(movement, "height", PyInt(5))),
                     IndexRaises(center)>>)

\* bbs_commands.py:97-153: what generate_scene_commands raises on the scene
SceneRaises(scene) ==
    IF "actors" \in DOMAIN scene
    THEN ActionRaises(scene.actors[1], scene.actors[1].actions[1])
    ELSE OrbitRaises(scene.camera.movements[1])

\* the optional fields of an action and of an orbit, each absent, well-formed
\* or malformed
WithKey(d, key, v) == [k \in (DOMAIN d) \cup {key} |-> IF k = key THEN v ELSE d[k]]

Positions ==
    {PyList(<<PyInt(5), PyInt(64), PyInt(1)>>),
     PyList(<<PyStr("~"), PyInt(64), PyStr("abc")>>),
     PyList(<<PyStr("~5"), PyNone, PyInt(2)>>),
     PyList(<<PyInt(5), PyInt(64)>>),
     PyNone}

MalformedActions ==
    {[type |-> PyStr("spawn")], [tick |-> PyInt(3)], [type |-> PyStr("sit")],
     [type |-> PyStr("walk_to")], [type |-> PyStr("teleport")],
     [type |-> PyStr("look_at")]}
    \cup {[type |-> PyStr("spawn"), position |-> p] : p \in Positions}
    \cup {[type |-> PyStr("walk_to"), target_position |-> p] : p \in Positions}
    \cup {[type |-> PyStr("teleport"), position |-> p] : p \in Positions}
    \cup {[type |-> PyStr("look_at"), target |-> p] :
            p \in Positions \cup {PyStr("1 2 3"), PyStr("5 5"), PyStr("Zoro")}}

MalformedActors ==
    LET bare == {[actions |-> <<a>>] : a \in MalformedActions}
        named == bare \cup {WithKey(b, "name", n) : b \in bare, n \in {PyStr("Bob"), PyNone}}
    IN named \cup {WithKey(b, "type", ty) :
                      b \in named, ty \in {PyStr("zombie"), PyStr(""), PyNone}}

MalformedOrbits ==
    LET bare == {[type |-> PyStr("orbit")]}
        centered == bare \cup {WithKey(b, "center", p) : b \in bare, p \in Positions}
        sized == centered \cup {WithKey(b, "radius", r) : b \in centered,
                                   r \in {PyInt(3), PyStr("3"), PyStr("big"), PyNone}}
    IN sized \cup {WithKey(b, "height", h) : b \in sized, h \in {PyStr("5"), PyStr("")}}

MalformedScenes ==
    {[actors |-> <<a>>] : a \in MalformedActors}
    \cup {[camera |-> [movements |-> <<m>>]] : m \in MalformedOrbits}

MalformedInit ==
    /\ m_pc = "idle"
    /\ m_scene = None
    /\ m_outcome = ""
    /\ m_center = <<>>

\* bbs_commands.py:97: generate_scene_commands is called
CallSceneCommands ==
    /\ m_pc = "idle"
    /\ m_scene = None
    /\ m_scene' \in MalformedScenes
    /\ m_pc' = "called"
    /\ UNCHANGED <<m_outcome, m_center>>
    /\ UNCHANGED <<fvars, cvars, rvars, tvars, svars, hvars, uvars, avars>>

\* bbs_commands.py:153: it returns its CommandSequence
SceneCommandsReturn ==
    /\ m_pc = "called"
    /\ SceneRaises(m_scene) = ""
    /\ m_outcome' = "returned"
    /\ m_center' = IF "camera" \in DOMAIN m_scene
                   THEN ParsePosAny(Get(m_scene.camera.movements[1], "center",
                                        PyList(<<PyInt(0), PyInt(64), PyInt(0)>>)))
                   ELSE <<>>
    /\ m_pc' = "idle"
    /\ UNCHANGED m_scene
    /\ UNCHANGED <<fvars, cvars, rvars, tvars, svars, hvars, uvars, avars>>

\* an exception leaves generate_scene_commands: nothing in it or in its
\* callees catches AttributeError, IndexError, TypeError or the ValueError
\* of float()
SceneCommandsRaise ==
    /\ m_pc = "called"
    /\ SceneRaises(m_scene) # ""
    /\ m_outcome' = SceneRaises(m_scene)
    /\ m_pc' = "idle"
    /\ UNCHANGED <<m_scene, m_center>>
    /\ UNCHANGED <<fvars, cvars, rvars, tvars, svars, hvars, uvars, avars>>

(***************************************************************************)
(* Entity resolution of one actor: the spawn path of                       *)
(* _generate_actor_commands and _get_target_selector, run on every         *)
(* combination of a name and a type, each absent, empty, a word or null.   *)
(***************************************************************************)
ResolverNames ==
    {PyStr(""), PyStr("Bob"), PyStr("cow"), PyStr("Ender Dragon"),
     PyStr("Zombie Titan"), PyStr("Mega Titan"), PyStr("ender_colossus"),
     PyStr("Spider Creeper Titan"), PyStr("Dragon Titan"), PyStr("Slime Titans"),
     PyStr("actor"), PyNone}

ResolverTypes ==
    {PyStr(""), PyStr("zombie"), PyStr("Cow"), PyStr("unknown"), PyStr("actor"),
     PyStr("Titan"), PyStr("a:b"), PyNone}

ResolverActors ==
    LET bare == {[id |-> "a1"]}
        named == bare \cup {WithKey(b, "name", n) : b \in bare, n \in ResolverNames}
    IN named \cup {WithKey(b, "type", ty) : b \in named, ty \in ResolverTypes}

\* bbs_commands.py:182, 207: actor.get('name', 'actor'), actor.get('type', 'unknown')
ActorName(actor) == Get(actor, "name", PyStr("actor"))

ActorType(actor) == Get(actor, "type", PyStr("unknown"))

ResolverInit ==
    /\ rs_actor = None
    /\ rs_done = {}
    /\ rs_entity_id = ""
    /\ rs_selector = ""
    /\ rs_registry = <<>>
    /\ rs_outcome = ""

\* bbs_commands.py:179-183: _generate_actor_commands receives an actor
ReceiveActor ==
    /\ rs_actor = None
    /\ rs_actor' \in ResolverActors
    /\ UNCHANGED <<rs_done, rs_entity_id, rs_selector, rs_registry, rs_outcome>>
    /\ UNCHANGED <<fvars, cvars, rvars, tvars, mvars, hvars, uvars, avars>>

\* bbs_commands.py:189-250: a spawn action resolves the entity id and
\* registers the actor
SpawnResolves ==
    /\ rs_actor # None
    /\ rs_outcome = ""
    /\ FirstRaised(<<LowerRaises(ActorType(rs_actor)), LowerRaises(ActorName(rs_actor))>>) = ""
    /\ rs_entity_id' = EntityId(Clean(ActorType(rs_actor).v), Clean(ActorName(rs_actor).v))
    /\ rs_registry' = [k \in {Get(rs_actor, "id", "actor_001")} |-> rs_entity_id']
    /\ rs_done' = rs_done \cup {"spawn"}
    /\ UNCHANGED <<rs_actor, rs_selector, rs_outcome>>
    /\ UNCHANGED <<fvars, cvars, rvars, tvars, mvars, hvars, uvars, avars>>

\* bbs_commands.py:254-256, 309-330: any other action resolves the selector
SelectorResolves ==
    /\ rs_actor # None
    /\ rs_outcome = ""
    /\ FirstRaised(<<LowerRaises(ActorName(rs_actor)), LowerRaises(ActorType(rs_actor))>>) = ""
    /\ rs_selector' = GetTargetSelector(ActorName(rs_actor).v, ActorType(rs_actor).v)
    /\ rs_done' = rs_done \cup {"selector"}
    /\ UNCHANGED <<rs_actor, rs_entity_id, rs_registry, rs_outcome>>
    /\ UNCHANGED <<fvars, cvars, rvars, tvars, mvars, hvars, uvars, avars>>

\* bbs_commands.py:207-208, 311-312: .lower() of a null name or type
ResolutionRaises ==
    /\ rs_actor # None
    /\ rs_outcome = ""
    /\ FirstRaised(<<LowerRaises(ActorName(rs_actor)), LowerRaises(ActorType(rs_actor))>>) # ""
    /\ rs_outcome' = FirstRaised(<<LowerRaises(ActorName(rs_actor)),
                                   LowerRaises(ActorType(rs_actor))>>)
    /\ UNCHANGED <<rs_actor, rs_done, rs_entity_id, rs_selector, rs_registry>>
    /\ UNCHANGED <<fvars, cvars, rvars, tvars, mvars, hvars, uvars, avars>>

(***************************************************************************)
(* src/src/bbs_commands.py: one actor that spawns and then walks, compiled *)
(* from every combination of a name and a type.                            *)
(***************************************************************************)
SpawnNames ==
    {"", "Zoro", "cow", "Cow", "pig", "Ender Dragon", "dragon", "Smaug the Dragon",
     "Zombie Titan", "Iron Titan", "witherzilla"}

SpawnTypes ==
    {"", "zombie", "cow", "piglin", "ender_dragon", "Ender Dragon", "unknown", "titan"}

SpawnActors ==
    LET bare == {[id |-> "a1",
                  actions |-> <<[type |-> "spawn"], [tick |-> 5, type |-> "walk_to"]>>]}
        named == bare \cup {WithKey(b, "name", n) : b \in bare, n \in SpawnNames}
    IN named \cup {WithKey(b, "type", ty) : b \in named, ty \in SpawnTypes}

\* bbs_commands.py:179-183: _generate_actor_commands is called
CallWithActor ==
    /\ u_pc = "idle"
    /\ u_input = None
    /\ u_input' \in SpawnActors
    /\ u_pc' = "called"
    /\ UNCHANGED u_output
    /\ UNCHANGED <<fvars, cvars, rvars, tvars, mvars, svars, hvars, avars>>

\* bbs_commands.py:185-307: it returns the commands of the actor's actions
ReturnActorCommands ==
    /\ u_pc = "called"
    /\ "actions" \in DOMAIN u_input
    /\ u_output' = Flatten([x \in 1..Len(u_input.actions) |->
                              ActionCommands(u_input, u_input.actions[x])])
    /\ u_pc' = "returned"
    /\ UNCHANGED u_input
    /\ UNCHANGED <<fvars, cvars, rvars, tvars, mvars, svars, hvars, avars>>

(***************************************************************************)
(* src/src/agent.py: BBSAgent, its state under any sequence of calls.      *)
(***************************************************************************)
\* what the parser may return, what a project file may hold
AgentStoryboards ==
    {[title |-> "A", scenes |-> <<[name |-> "s1",
                                   setting |-> [world_modifications |-> <<"castle">>]]>>],
     [title |-> "B", scenes |-> <<[name |-> "s1", duration_seconds |-> 20],
                                  [name |-> "s2"]>>],
     [title |-> "C"]}

\* bbs_commands.py:456-470 for scenes that have a setting at most
RECURSIVE ScriptScenes(_, _)
ScriptScenes(scenes, offset) ==
    IF scenes = <<>> THEN <<>>
    ELSE <<SceneEntry(Head(scenes), SetupCommands(Head(scenes)), offset)>>
            \o ScriptScenes(Tail(scenes),
                            offset + SceneDuration(Head(scenes), SetupCommands(Head(scenes))))

\* bbs_commands.py:438-475, generate_full_script of such a storyboard
FullScript(sb) ==
    LET scenes == ScriptScenes(Get(sb, "scenes", <<>>), 0)
    IN [title |-> Get(sb, "title", "Untitled"),
        total_duration_ticks |->
            IF scenes = <<>> THEN 0
            ELSE scenes[Len(scenes)].start_tick + scenes[Len(scenes)].duration_ticks,
        scenes |-> scenes]

Called(op, did_raise) == [op |-> op, raised |-> did_raise]

AgentInit ==
    /\ a_storyboard = None
    /\ a_script = None
    /\ a_plan = None
    /\ a_last = Called("init", FALSE)
    /\ a_acted = None

\* agent.py:155-176: the parser answers and the storyboard is kept, or the
\* parser raises
ProcessScript ==
    /\ \/ /\ a_storyboard' \in AgentStoryboards
          /\ a_last' = Called("process_script", FALSE)
       \/ /\ a_last' = Called("process_script", TRUE)
          /\ UNCHANGED a_storyboard
    /\ UNCHANGED <<a_script, a_plan, a_acted>>
    /\ UNCHANGED <<fvars, cvars, rvars, tvars, mvars, svars, hvars, uvars>>

\* agent.py:178-194
RefineStoryboard ==
    /\ IF Falsy(a_storyboard)
       THEN /\ a_last' = Called("refine_storyboard", TRUE)
            /\ UNCHANGED a_storyboard
       ELSE /\ a_storyboard' \in AgentStoryboards
            /\ a_last' = Called("refine_storyboard", FALSE)
    /\ UNCHANGED <<a_script, a_plan, a_acted>>
    /\ UNCHANGED <<fvars, cvars, rvars, tvars, mvars, svars, hvars, uvars>>

\* agent.py:202-220
GenerateCommands ==
    /\ IF Falsy(a_storyboard)
       THEN /\ a_last' = Called("generate_commands", TRUE)
            /\ UNCHANGED a_script
       ELSE /\ a_script' = FullScript(a_storyboard)
            /\ a_last' = Called("generate_commands", FALSE)
    /\ UNCHANGED <<a_storyboard, a_plan, a_acted>>
    /\ UNCHANGED <<fvars, cvars, rvars, tvars, mvars, svars, hvars, uvars>>

\* agent.py:222-265
ExportToFiles ==
    /\ IF Falsy(a_script)
       THEN /\ a_last' = Called("export_to_files", TRUE)
            /\ UNCHANGED a_acted
       ELSE /\ a_acted' = [script |-> a_script, storyboard |-> a_storyboard]
            /\ a_last' = Called("export_to_files", FALSE)
    /\ UNCHANGED <<a_storyboard, a_script, a_plan>>
    /\ UNCHANGED <<fvars, cvars, rvars, tvars, mvars, svars, hvars, uvars>>

\* agent.py:267-299; self.rcon.is_available() answers either way
ExecuteViaRcon ==
    /\ \E available \in BOOLEAN :
          IF ~available \/ Falsy(a_script)
          THEN /\ a_last' = Called("execute_via_rcon", TRUE)
               /\ UNCHANGED a_acted
          ELSE /\ a_acted' = [script |-> a_script, storyboard |-> a_storyboard]
               /\ a_last' = Called("execute_via_rcon", FALSE)
    /\ UNCHANGED <<a_storyboard, a_script, a_plan>>
    /\ UNCHANGED <<fvars, cvars, rvars, tvars, mvars, svars, hvars, uvars>>

\* agent.py:301-313
GetRecordingPlan ==
    /\ IF Falsy(a_script)
       THEN /\ a_last' = Called("get_recording_plan", TRUE)
            /\ UNCHANGED a_plan
       ELSE /\ a_plan' = [of |-> a_script.title]
            /\ a_last' = Called("get_recording_plan", FALSE)
    /\ UNCHANGED <<a_storyboard, a_script, a_acted>>
    /\ UNCHANGED <<fvars, cvars, rvars, tvars, mvars, svars, hvars, uvars>>

\* agent.py:359-382: a project file as save_project (agent.py:345-349)
\* writes it from a storyboard and the script made of it, or from a
\* storyboard alone; or no readable file
LoadProject ==
    /\ \/ \E sb \in AgentStoryboards :
            /\ a_storyboard' = sb
            /\ a_script' \in {None, FullScript(sb)}
            /\ a_plan' = None
            /\ a_last' = Called("load_project", FALSE)
       \/ /\ a_last' = Called("load_project", TRUE)
          /\ UNCHANGED <<a_storyboard, a_script, a_plan>>
    /\ UNCHANGED a_acted
    /\ UNCHANGED <<fvars, cvars, rvars, tvars, mvars, svars, hvars, uvars>>

\* agent.py:384-388, reset
AgentReset ==
    /\ a_storyboard' = None
    /\ a_script' = None
    /\ a_plan' = None
    /\ a_last' = Called("reset", FALSE)
    /\ UNCHANGED a_acted
    /\ UNCHANGED <<fvars, cvars, rvars, tvars, mvars, svars, hvars, uvars>>

Init ==
    /\ FilterInit /\ CompilerInit /\ RconInit /\ IngameInit /\ MalformedInit
    /\ ResolverInit /\ ChatInit /\ PureInit /\ AgentInit

Next ==
    \/ GenerateFullScript
    \/ SceneSetup
    \/ ActorAction
    \/ CameraMovement
    \/ CameraMovementRaises
    \/ FovKeyframe
    \/ Effect
    \/ FinishScene
    \/ ReturnScript
    \/ Reset

Spec == Init /\ [][Next]_vars

FilterNext == CreateStoryboard \/ GetAllCommands \/ FilterAgain

SpecFilter == Init /\ [][FilterNext]_vars

RconNext ==
    \/ ImportModule
    \/ ExecuteSequence
    \/ ConnectOk
    \/ ConnectFails
    \/ Pace
    \/ Skip
    \/ SubmitOk
    \/ SubmitFails
    \/ ReturnResults
    \/ RequestCancel

SpecRcon == Init /\ [][RconNext]_vars

IngameNext ==
    \/ StartThread
    \/ ThreadCreate
    \/ ThreadAssign
    \/ ThreadCollect
    \/ ThreadExecute
    \/ ThreadTransportFails

SpecIngame == Init /\ [][IngameNext]_vars

\* the chat handler beside the threads of the log monitor
DirectNext ==
    \/ ChatStory
    \/ ChatRunRefused
    \/ ChatRunCollect
    \/ ChatConnectOk
    \/ ChatConnectFails
    \/ ChatSkip
    \/ ChatSubmit
    \/ ChatSubmitFails
    \/ ChatRespond
    \/ StartThread
    \/ ThreadCreate
    \/ ThreadAssign
    \/ ThreadCollect
    \/ ThreadExecute
    \/ ThreadTransportFails

SpecDirect == Init /\ [][DirectNext]_vars

MalformedNext == CallSceneCommands \/ SceneCommandsReturn \/ SceneCommandsRaise

SpecMalformed == Init /\ [][MalformedNext]_vars

ResolverNext == ReceiveActor \/ SpawnResolves \/ SelectorResolves \/ ResolutionRaises

SpecResolver == Init /\ [][ResolverNext]_vars

WorldModsNext == CallWithWorldMods \/ ReturnWorldMods

SpecWorldMods == Init /\ [][WorldModsNext]_vars

KeyframesNext == CallWithMovement \/ ReturnKeyframes \/ KeyframesRaise

SpecKeyframes == Init /\ [][KeyframesNext]_vars

ActorNext == CallWithActor \/ ReturnActorCommands

SpecActor == Init /\ [][ActorNext]_vars

AgentNext ==
    \/ ProcessScript
    \/ RefineStoryboard
    \/ GenerateCommands
    \/ ExportToFiles
    \/ ExecuteViaRcon
    \/ GetRecordingPlan
    \/ LoadProject
    \/ AgentReset

SpecAgent == Init /\ [][AgentNext]_vars

(***************************************************************************)
(* Properties of the safety filter (checked under SpecFilter).             *)
(***************************************************************************)
\* the commands of scene k of the stored storyboard, as the filter loop reads them
SceneInput(k) == Get(ScenesOf(g_storyboard)[k], "commands", <<>>)

Filtered == fpc \in {"filtered", "refiltered"}

\* str.endswith(suffix)
EndsWith(s, suffix) ==
    /\ Len(s) >= Len(suffix)
    /\ SubSeq(s, Len(s) - Len(suffix) + 1, Len(s)) = suffix

\* cmd, after its leading whitespace, starts with `word`
StartsAfterLeadingSpace(cmd, word) ==
    \E n \in 0..(Len(cmd) - Len(word)) :
        /\ \A j \in 1..n : IsWhitespace(CharAt(cmd, j))
        /\ SubSeq(cmd, n + 1, n + Len(word)) = word

\* the player-teleport pattern: a tp aimed at all players or at the nearest
\* player, at the start of the command or as a word inside it
PlayerTeleport(cmd) ==
    \/ StartsAfterLeadingSpace(cmd, "tp @a")
    \/ StartsAfterLeadingSpace(cmd, "tp @p")
    \/ Contains(cmd, " tp @a")
    \/ Contains(cmd, " tp @p")

\* C2: the safety filter is idempotent: filtering the filtered list of every
\* scene again gives the identical list.
C2_FilterIdempotent ==
    fpc = "refiltered" => refiltered = safe_cmds

\* C3: no output entry of the filter that is not comment-tagged (does not
\* start with '#') matches the player-teleport pattern.
C3_SurvivorsAreNotTeleports ==
    Filtered =>
        \A k \in 1..Len(safe_cmds) : \A i \in 1..Len(safe_cmds[k]) :
            ~StartsWith(safe_cmds[k][i], "#") => ~PlayerTeleport(safe_cmds[k][i])

\* a scene in which one command was replaced and another, not a comment and not
\* blank, survived
C3_Witness ==
    /\ Filtered
    /\ \E k \in 1..Len(safe_cmds) : \E i, j \in 1..Len(safe_cmds[k]) :
        /\ PlayerTeleport(SceneInput(k)[i])
        /\ safe_cmds[k][i] # SceneInput(k)[i]
        /\ safe_cmds[k][j] = SceneInput(k)[j]
        /\ ~StartsWith(safe_cmds[k][j], "#")
        /\ Strip(safe_cmds[k][j]) # ""

\* C4: the filter preserves length and order: the output of a scene is as long
\* as its input, and position i holds input i unchanged or one placeholder
\* that starts with '#', contains "BLOCKED" and ends with the text of input i.
C4_LengthAndOrderPreserved ==
    Filtered =>
        /\ Len(safe_cmds) = Len(ScenesOf(g_storyboard))
        /\ \A k \in 1..Len(safe_cmds) :
            /\ Len(safe_cmds[k]) = Len(SceneInput(k))
            /\ \A i \in 1..Len(safe_cmds[k]) :
                \/ safe_cmds[k][i] = SceneInput(k)[i]
                \/ /\ StartsWith(safe_cmds[k][i], "#")
                   /\ Contains(safe_cmds[k][i], "BLOCKED")
                   /\ EndsWith(safe_cmds[k][i], SceneInput(k)[i])
                   /\ Len(safe_cmds[k][i]) > Len(SceneInput(k)[i])

\* a scene of two different commands whose first was replaced and whose second
\* was kept
C4_Witness ==
    /\ Filtered
    /\ \E k \in 1..Len(safe_cmds) :
        /\ Len(safe_cmds[k]) = 2
        /\ SceneInput(k)[1] # SceneInput(k)[2]
        /\ safe_cmds[k][1] = "# BLOCKED UNSAFE COMMAND: " \o SceneInput(k)[1]
        /\ safe_cmds[k][2] = SceneInput(k)[2]

\* the commands C5 says are blocked: after trimming leading whitespace the
\* command starts with a tp aimed at @a or @p, or it contains a tp aimed at @a
C5_ClaimedBlocked(cmd) ==
    \/ StartsAfterLeadingSpace(cmd, "tp @a")
    \/ StartsAfterLeadingSpace(cmd, "tp @p")
    \/ Contains(cmd, "tp @a")

\* C5: a command is replaced exactly when, after trimming leading whitespace,
\* it starts with a tp aimed at @a or @p or it contains a tp aimed at @a; every
\* other command, such as a tp aimed at @e, passes unchanged.
C5_BlocksOnlyPlayerTeleports ==
    Filtered =>
        \A k \in 1..Len(safe_cmds) : \A i \in 1..Len(safe_cmds[k]) :
            (safe_cmds[k][i] # SceneInput(k)[i]) <=> C5_ClaimedBlocked(SceneInput(k)[i])

(***************************************************************************)
(* Properties of the script assembler (checked under Spec).                *)
(***************************************************************************)
\* the script being assembled, or the one returned last
Script == IF pc = "idle" THEN current_script ELSE result

RECURSIVE SumDurations(_)
SumDurations(entries) ==
    IF entries = <<>> THEN 0
    ELSE entries[1].duration_ticks + SumDurations(Tail(entries))

\* the declared duration of scene k of the storyboard, in ticks
DeclaredTicks(k) == Get(Scenes[k], "duration_seconds", 30) * 20

RECURSIVE SumDeclared(_)
SumDeclared(n) == IF n = 0 THEN 0 ELSE DeclaredTicks(n) + SumDeclared(n - 1)

Count(s, x) == Cardinality({i \in 1..Len(s) : s[i] = x})

Shifted(cmd, offset) == [cmd EXCEPT !.tick = @ + offset]

IsPlayerTp(text) == StartsWith(text, "tp @p") \/ StartsWith(text, "tp @a")

\* C1: no command of a script returned by generate_full_script is an
\* executable player teleport (its text starts with "tp @p" or "tp @a"): the
\* commands of camera movements included, all have passed the safety filter.
C1_ReturnedScriptHasNoPlayerTeleport ==
    (pc = "idle" /\ current_script # None) =>
        \A k \in 1..Len(current_script.scenes) :
            \A i \in 1..Len(current_script.scenes[k].commands) :
                ~IsPlayerTp(current_script.scenes[k].commands[i].command)

\* what C6 says of one step of the assembler
C6_Step ==
    /\ pc = "finish" =>
          LET entry == result'.scenes[Len(result'.scenes)]
          IN /\ Len(result'.scenes) = Len(result.scenes) + 1
             /\ SubSeq(result'.scenes, 1, Len(result.scenes)) = result.scenes
             /\ entry.start_tick = SumDurations(result.scenes)
             /\ Len(entry.commands) = Len(seq)
             /\ \A i \in 1..Len(seq) :
                    Count(entry.commands, Shifted(seq[i], entry.start_tick))
                        = Count(seq, seq[i])
    /\ (pc = "scene" /\ pc' = "idle") =>
          /\ current_script'.scenes = result.scenes
          /\ current_script'.total_duration_ticks = SumDurations(result.scenes)

\* C6: scene k of the script starts at the sum of the duration_ticks of the
\* scenes before it (0 for the first), its commands are the commands generated
\* for the scene with every tick raised by exactly that start_tick, and the
\* returned total_duration_ticks is the sum of all scenes' duration_ticks.
C6_OffsetsAreCumulative == [][C6_Step]_vars

\* a returned script whose second scene starts after a first of 400 ticks and
\* holds camera frames, the first of them moved to its start_tick
C6_Witness ==
    /\ pc = "idle" /\ current_script # None
    /\ Len(current_script.scenes) = 2
    /\ current_script.scenes[1].duration_ticks = 400
    /\ current_script.scenes[2].start_tick = 400
    /\ \E i \in 1..Len(current_script.scenes[2].commands) :
          /\ current_script.scenes[2].commands[i].type = "camera"
          /\ current_script.scenes[2].commands[i].tick = 405
    /\ current_script.total_duration_ticks = 1000

\* what C7 says of one step of the assembler
C7_Step ==
    /\ pc = "finish" =>
          LET entry == result'.scenes[Len(result'.scenes)]
          IN /\ entry.duration_ticks = DeclaredTicks(scene_idx)
             /\ Len(entry.commands) = Len(seq)
             /\ \A i \in 1..Len(seq) :
                    \E j \in 1..Len(entry.commands) :
                        /\ entry.commands[j].command = seq[i].command
                        /\ entry.commands[j].tick = seq[i].tick + entry.start_tick
             /\ current_tick_offset' = current_tick_offset + DeclaredTicks(scene_idx)
    /\ (pc = "scene" /\ pc' = "idle") =>
          /\ current_script'.total_duration_ticks = SumDeclared(Len(Scenes))
          /\ \A k \in 1..Len(Scenes) :
                /\ current_script'.scenes[k].duration_ticks = DeclaredTicks(k)
                /\ current_script'.scenes[k].start_tick = SumDeclared(k - 1)

\* C7: a scene's duration_ticks is its declared duration_seconds (30 when not
\* declared) times 20 whatever the highest tick of its commands; commands past
\* the declared duration are kept and do not lengthen it, so the total and the
\* start ticks are sums of declared durations.
C7_DurationIsDeclared == [][C7_Step]_vars

\* scenes declared as 600 and 400 ticks, the first holding a command past its
\* 600 ticks: the total is 1000 and the second scene starts at 600
C7_Witness ==
    /\ pc = "idle" /\ current_script # None
    /\ Len(current_script.scenes) = 2
    /\ current_script.scenes[1].duration_ticks = 600
    /\ current_script.scenes[2].duration_ticks = 400
    /\ \E i \in 1..Len(current_script.scenes[1].commands) :
          current_script.scenes[1].commands[i].tick > 600
    /\ current_script.total_duration_ticks = 1000
    /\ current_script.scenes[2].start_tick = 600

\* the ticks a scene of the storyboard declares for its actions, camera
\* movements, FOV keyframes and effects (the code's defaults where absent)
DeclaredTickSet(scene) ==
    {Get(Get(Get(scene, "actors", <<>>)[p[1]], "actions", <<>>)[p[2]], "tick", 0) :
        p \in {ActorSteps(scene)[n] : n \in 1..Len(ActorSteps(scene))}}
    \cup {Get(Movements(scene)[n], "tick_start", 0) : n \in 1..Len(Movements(scene))}
    \cup {Get(Movements(scene)[n], "tick_end", 100) :
            n \in 1..Len(Movements(scene))}
    \cup {Get(FovKeyframes(scene)[n], "tick", 0) : n \in 1..Len(FovKeyframes(scene))}
    \cup {Get(Effects(scene)[n], "tick", 0) : n \in 1..Len(Effects(scene))}

NoNegativeTick == \A k \in 1..Len(Scenes) : \A t \in DeclaredTickSet(Scenes[k]) : t >= 0

\* C8: when no action, camera or effect tick of the storyboard is negative,
\* every command of scene k of the script has a tick >= the scene's start_tick.
C8_TicksNotBeforeSceneStart ==
    (Script # None /\ NoNegativeTick) =>
        \A k \in 1..Len(Script.scenes) : \A i \in 1..Len(Script.scenes[k].commands) :
            Script.scenes[k].commands[i].tick >= Script.scenes[k].start_tick

\* a returned script of non-negative ticks whose first scene holds a command
\* at or past the start of the second, which has later commands of its own
C8_Witness ==
    /\ pc = "idle" /\ current_script # None /\ NoNegativeTick
    /\ Len(current_script.scenes) = 2
    /\ current_script.scenes[2].start_tick > 0
    /\ \E i \in 1..Len(current_script.scenes[1].commands) :
          current_script.scenes[1].commands[i].tick >= current_script.scenes[2].start_tick
    /\ \E i \in 1..Len(current_script.scenes[2].commands) :
          current_script.scenes[2].commands[i].tick > current_script.scenes[2].start_tick

\* C9: the registry is scoped to one invocation of generate_full_script: while
\* an invocation runs, the registry holds only actors spawned by it (it is
\* empty when the invocation starts, also after BBSAgent.reset), so a dolly's
\* look_at resolves only to an actor spawned in the current invocation.
C9_RegistryScopedToInvocation ==
    pc # "idle" =>
        /\ DOMAIN actor_registry \subseteq spawned
        /\ \A i \in 1..Len(seq) :
              Contains(seq[i].command, "facing entity") =>
                  \E n \in 1..Len(Movements(Scene)) :
                      Get(Movements(Scene)[n], "look_at", "") \in spawned

\* the actor and the action that ActorAction processes in this state
CurrentActor == Get(Scene, "actors", <<>>)[ActorSteps(Scene)[cursor][1]]

CurrentAction == Get(CurrentActor, "actions", <<>>)[ActorSteps(Scene)[cursor][2]]

SameElsewhere(id) ==
    \A k \in (DOMAIN actor_registry \cup DOMAIN actor_registry') \ {id} :
        /\ k \in DOMAIN actor_registry
        /\ k \in DOMAIN actor_registry'
        /\ actor_registry'[k] = actor_registry[k]

\* what C10 says of one step
C10_Step ==
    /\ actor_registry' # actor_registry =>
          (pc = "actors" /\ Get(CurrentAction, "type", "idle") = "spawn")
    /\ (pc = "actors" /\ Get(CurrentAction, "type", "idle") = "spawn") =>
          /\ Get(CurrentActor, "id", "actor_001") \in DOMAIN actor_registry'
          /\ actor_registry'[Get(CurrentActor, "id", "actor_001")].name
                = Get(CurrentActor, "name", "actor")
          /\ SameElsewhere(Get(CurrentActor, "id", "actor_001"))

\* C10: only spawn actions change the registry: every non-spawn action, camera
\* movement, effect and every other step leaves it as it was, and a spawn
\* sets the entry keyed by its actor's id and no other entry.
C10_OnlySpawnWritesRegistry == [][C10_Step]_vars

\* a scene whose actor was spawned at (1, 64, 2) and then teleported, with a
\* second actor's entry from an earlier scene still in place
C10_Witness ==
    /\ pc = "finish"
    /\ scene_idx = 2
    /\ Get(Scene, "name", "") = "duel"
    /\ DOMAIN actor_registry = {"a1", "a2"}
    /\ actor_registry["a1"].position = <<1, 64, 2>>
    /\ \E i \in 1..Len(seq) : StartsWith(seq[i].command, "tp @e")

(***************************************************************************)
(* Properties of the scheduler (checked under SpecRcon).                   *)
(***************************************************************************)
SubmittedTexts == [k \in 1..Len(submitted) |-> submitted[k].command]

InputText(k) == Get(rc_commands[k], "command", "")

InputTick(k) == Get(rc_commands[k], "tick", 0)

\* the texts of the input that are not comments, in input order
RealInputTexts ==
    LET RECURSIVE Go(_)
        Go(k) == IF k > Len(rc_commands) THEN <<>>
                 ELSE IF StartsWith(InputText(k), "#") THEN Go(k + 1)
                 ELSE <<InputText(k)>> \o Go(k + 1)
    IN Go(1)

\* execute_sequence has returned after the connection was opened
ReturnedConnected == rc_pc = "returned" /\ rc_i >= 1

\* C11: once the connection is open, every non-comment command of the input
\* is submitted exactly once, a failed submission is recorded as a failed
\* Result of that command, and the commands after it are still submitted.
C11_EverySubmittedOnce ==
    ReturnedConnected =>
        /\ \A k \in 1..Len(rc_commands) :
              ~StartsWith(InputText(k), "#") =>
                  Count(SubmittedTexts, InputText(k)) = Count(RealInputTexts, InputText(k))
        /\ Len(submitted) = Len(RealInputTexts)
        /\ \A k \in 1..Len(submitted) :
              /\ results[submitted[k].at].command = submitted[k].command
              /\ results[submitted[k].at].response \in {"ok", "err"}
              /\ results[submitted[k].at].success = (results[submitted[k].at].response = "ok")

\* three commands were submitted although the first submission failed, the
\* failure recorded for the first and successes for the later two
C11_Witness ==
    /\ ReturnedConnected
    /\ Len(submitted) = 3
    /\ ~results[1].success /\ results[1].response = "err"
    /\ results[2].success /\ results[3].success
    /\ results[1].command = submitted[1].command

\* C12: execute_sequence returns one Result per input command, Result i with
\* the tick and the text of the i-th command in tick-sorted order, whether
\* submissions fail, the connection cannot be opened or mcrcon is missing.
C12_OneResultPerCommand ==
    rc_pc = "returned" =>
        /\ Len(results) = Len(rc_commands)
        /\ \A i \in 1..Len(results) :
              /\ results[i].tick = Get(SortedCmds(rc_commands)[i], "tick", 0)
              /\ results[i].command = Get(SortedCmds(rc_commands)[i], "command", "")

\* C13: commands are submitted in non-decreasing tick order whatever the order
\* of the input list, and commands of equal tick in their input order: the
\* order of submission is the input rearranged by a tick-ordered, tie-keeping
\* permutation.
C13_SubmittedInStableTickOrder ==
    (rc_pc \in {"pace", "send", "exit", "returned"} /\ rc_i >= 1) =>
        /\ \E perm \in [1..Len(rc_commands) -> 1..Len(rc_commands)] :
              /\ \A a, b \in 1..Len(rc_commands) : a # b => perm[a] # perm[b]
              /\ \A a \in 1..Len(rc_commands) : sorted_cmds[a] = rc_commands[perm[a]]
              /\ \A a, b \in 1..Len(rc_commands) :
                    a < b => \/ InputTick(perm[a]) < InputTick(perm[b])
                             \/ /\ InputTick(perm[a]) = InputTick(perm[b])
                                /\ perm[a] < perm[b]
        /\ Len(sorted_cmds) = Len(rc_commands)
        /\ \A j, k \in 1..Len(submitted) :
              j < k => /\ submitted[j].at < submitted[k].at
                       /\ Get(sorted_cmds[submitted[j].at], "tick", 0)
                            <= Get(sorted_cmds[submitted[k].at], "tick", 0)
        /\ \A k \in 1..Len(submitted) :
              submitted[k].command = Get(sorted_cmds[submitted[k].at], "command", "")

\* an input that starts with its latest command and holds two commands of
\* tick 0 was submitted: the two in their input order, the latest last
C13_Witness ==
    /\ rc_pc = "returned"
    /\ Len(rc_commands) = 3
    /\ InputTick(1) = 40 /\ InputTick(2) = 0 /\ InputTick(3) = 0
    /\ InputText(2) # InputText(3)
    /\ SubmittedTexts = <<InputText(2), InputText(3), InputText(1)>>

\* the Results that record input command k as skipped
SkippedResults(k) ==
    {i \in 1..Len(results) :
        results[i] = CommandResult(TRUE, "Skipped", InputTick(k), InputText(k))}

\* the input commands with the tick and the text of input command k
SameAsInput(k) ==
    {j \in 1..Len(rc_commands) :
        InputTick(j) = InputTick(k) /\ InputText(j) = InputText(k)}

\* C14: a command whose text starts with '#' is never submitted, and it
\* yields exactly one successful "Skipped" Result with its tick and its text.
C14_CommentsSkippedNotSubmitted ==
    /\ \A k \in 1..Len(submitted) : ~StartsWith(submitted[k].command, "#")
    /\ rc_pc = "returned" =>
          \A k \in 1..Len(rc_commands) :
              StartsWith(InputText(k), "#") =>
                  Cardinality(SkippedResults(k)) = Cardinality(SameAsInput(k))

\* the tick of the last command before index k of sorted_cmds that is not a
\* comment, 0 when there is none
RECURSIVE TickOfLastRealBefore(_)
TickOfLastRealBefore(k) ==
    IF k <= 1 THEN 0
    ELSE IF ~StartsWith(Get(sorted_cmds[k - 1], "command", ""), "#")
         THEN Get(sorted_cmds[k - 1], "tick", 0)
         ELSE TickOfLastRealBefore(k - 1)

\* the commands of sorted_cmds whose wait is over
PacedCount == IF rc_pc = "pace" THEN rc_i - 1 ELSE Min(rc_i, Len(sorted_cmds))

\* the waits C15 describes for the first n commands, in milliseconds
RECURSIVE ClaimedSleeps(_)
ClaimedSleeps(n) ==
    IF n = 0 THEN <<>>
    ELSE IF realtime /\ Get(sorted_cmds[n], "tick", 0) > TickOfLastRealBefore(n)
         THEN Append(ClaimedSleeps(n - 1),
                     [before |-> n,
                      ms |-> (Get(sorted_cmds[n], "tick", 0) - TickOfLastRealBefore(n))
                               * tick_delay_ms])
         ELSE ClaimedSleeps(n - 1)

\* C15: last_tick is 0 at first and then the tick of the last submitted (not
\* skipped) command; with realtime the scheduler sleeps (tick - last_tick) *
\* tick_delay_ms milliseconds before a command exactly when tick > last_tick,
\* and without realtime it never sleeps.
C15_PacingFollowsLastSubmitted ==
    rc_pc \in {"pace", "send", "exit", "returned"} =>
        /\ last_tick = IF rc_i = 0 THEN 0 ELSE TickOfLastRealBefore(rc_i)
        /\ slept = IF rc_i = 0 THEN <<>> ELSE ClaimedSleeps(PacedCount)
        /\ ~realtime => slept = <<>>

\* ticks 0, 20 and 40 at 50 ms a tick in real time: 1000 ms before the second
\* command and 1000 ms before the third
C15_Witness ==
    /\ rc_pc = "returned" /\ realtime /\ tick_delay_ms = 50
    /\ Len(sorted_cmds) = 3
    /\ [k \in 1..3 |-> Get(sorted_cmds[k], "tick", 0)] = <<0, 20, 40>>
    /\ Len(submitted) = 3
    /\ slept = <<[before |-> 2, ms |-> 1000], [before |-> 3, ms |-> 1000]>>

\* C16: a cancellation request is checked before each wait and before each
\* submission: once it is made, no further command is submitted and no
\* further wait starts.
C16_NoSubmissionAfterCancel ==
    [][cancel_requested => (submitted' = submitted /\ slept' = slept)]_vars

(***************************************************************************)
(* Properties of the in-game request threads (checked under SpecIngame).   *)
(***************************************************************************)
\* the texts thread t has sent, in order
SentBy(t) ==
    LET RECURSIVE Go(_)
        Go(k) == IF k > Len(t_sent) THEN <<>>
                 ELSE IF t_sent[k][1] = t THEN <<t_sent[k][2]>> \o Go(k + 1)
                 ELSE Go(k + 1)
    IN Go(1)

\* the commands of storyboard sb that the filter and the loop let through
SendableOf(sb) ==
    LET all == GetAllCommandsOf(sb)
        RECURSIVE Go(_)
        Go(k) == IF k > Len(all) THEN <<>>
                 ELSE IF StartsWith(all[k], "#") \/ Strip(all[k]) = "" THEN Go(k + 1)
                 ELSE <<all[k]>> \o Go(k + 1)
    IN Go(1)

\* C17: threads of different requests share no state: under every
\* interleaving a thread sends, in order, commands of the storyboard generated
\* for its own request and of no other.
C17_ThreadSendsOwnStoryboard ==
    \A t \in Threads :
        t_pc[t] \in {"execute", "done"} =>
            /\ Len(SentBy(t)) <= Len(SendableOf(t_storyboard[t]))
            /\ SentBy(t) = SubSeq(SendableOf(t_storyboard[t]), 1, Len(SentBy(t)))

(***************************************************************************)
(* Properties of the compiler on short intervals and malformed input.      *)
(***************************************************************************)
\* the camera movement the compiler is at
CurrentMovement == Movements(Scene)[cursor]

\* what C18 says of the step that compiles an orbit or a dolly
C18_Step ==
    (/\ pc = "camera"
     /\ Get(CurrentMovement, "type", "static") \in {"orbit", "dolly"}
     /\ Get(CurrentMovement, "tick_start", 0) <= Get(CurrentMovement, "tick_end", 100))
    => /\ ~raised'
       /\ pc' # "idle"
       /\ Len(seq') >= Len(seq) + 1

\* C18: for every orbit or dolly with tick_start <= tick_end, tick_start =
\* tick_end included, interpolation does not divide by zero and at least one
\* keyframe command is emitted.
C18_ShortIntervalsEmitAKeyframe == [][C18_Step]_vars


\* the malformed inputs C19 lists: every scene of MalformedScenes but those
\* whose actor name is null
ListedMalformed(scene) ==
    "actors" \in DOMAIN scene => Get(scene.actors[1], "name", PyStr("actor")) # PyNone

\* C19: generate_scene_commands never raises on a missing or wrong-typed
\* field of an action, a position with a non-numeric coordinate or fewer than
\* three components, a non-numeric radius, angle or height, or a null actor
\* type: every call on such a scene returns its CommandSequence.
C19_MalformedInputNeverRaises ==
    (m_outcome # "" /\ ListedMalformed(m_scene)) => m_outcome = "returned"


\* the actors C20 is about: name and type are each absent or a string
StringTyped(actor) == ActorName(actor).t = "str" /\ ActorType(actor).t = "str"

C20_NonEmpty ==
    (rs_actor # None /\ StringTyped(rs_actor)) =>
        /\ rs_outcome = ""
        /\ "spawn" \in rs_done => rs_entity_id # ""
        /\ "selector" \in rs_done => rs_selector # ""

C20_Step ==
    rs_actor' = rs_actor =>
        /\ ("spawn" \in rs_done /\ "spawn" \in rs_done') => rs_entity_id' = rs_entity_id
        /\ ("selector" \in rs_done /\ "selector" \in rs_done') => rs_selector' = rs_selector

Range(f) == {f[x] : x \in DOMAIN f}

\* the lines of a command list that the direct path sends
Sendable(cmds) == SelectSeq(cmds, LAMBDA c : ~IsSkippedLine(c))

\* C21: on the direct execution path a failed submission does not abort the
\* rest: when the "run" branch or a thread of process_ingame_request has
\* ended after an mcr.command that raised, every later command that is
\* neither a comment nor blank has been handed to the transport as well.
C21_FailureDoesNotAbortDirectPath ==
    /\ (ch_pc = "done" /\ ch_failed > 0) => Len(ch_sent) = Len(Sendable(ch_cmds))
    /\ \A t \in Threads :
          t_pc[t] = "done" =>
              \A k \in (t_next[t] + 1)..Len(t_cmds[t]) : IsSkippedLine(t_cmds[t][k])


\* the commands of the storyboards of the direct path that the filter blocks
BlockedOriginals ==
    {c \in UNION {UNION {Range(Get(ScenesOf(sb)[k], "commands", <<>>)) :
                            k \in 1..Len(ScenesOf(sb))} : sb \in IngameStoryboards} :
        IsUnsafe(c)}

\* the texts handed to the transport by the "run" branch and by the threads
DirectlySent == Range(ch_sent) \cup {t_sent[k][2] : k \in 1..Len(t_sent)}

\* C22: no command that get_all_commands replaced by a placeholder reaches
\* the transport from the "run" branch or from process_ingame_request,
\* either as it was or as its placeholder.
C22_BlockedCommandsNeverSent ==
    \A c \in BlockedOriginals :
        c \notin DirectlySent /\ BlockedPlaceholder(c) \notin DirectlySent

\* the "run" branch and a thread have each gone through a list holding two
\* placeholders and sent the command between them
C22_Witness ==
    /\ ch_pc = "done"
    /\ ch_failed = 0
    /\ ch_cmds = <<"# === w ===", BlockedPlaceholder(" tp @a 0 0 0"), "say w",
                   BlockedPlaceholder("execute run tp @p ~ ~ ~")>>
    /\ ch_sent = <<"say w">>
    /\ \E t \in Threads :
          /\ t_pc[t] = "done"
          /\ t_cmds[t] = ch_cmds
          /\ t_next[t] = Len(t_cmds[t]) + 1
          /\ <<t, "say w">> \in Range(t_sent)


\* the place of a phase of generate_scene_commands in the order of
\* bbs_commands.py:110-147
PhaseRank(p) ==
    CASE p = "scene" -> 0
      [] p = "actors" -> 1
      [] p \in {"camera", "fov"} -> 2
      [] p = "effects" -> 3
      [] OTHER -> 4

IsPrefix(a, b) == Len(a) <= Len(b) /\ SubSeq(b, 1, Len(a)) = a

WithTick(commands, T) == SelectSeq(commands, LAMBDA c : c.tick = T)

C23_Step ==
    /\ (pc = "scene" /\ pc' \notin {"scene", "idle"}) =>
            /\ Len(seq') = 2 + Len(Get(Get(Scene, "setting", EmptyDict),
                                        "world_modifications", <<>>))
            /\ seq'[1].command = TimeCommand(Scene)
            /\ seq'[2].command = WeatherCommand(Scene)
    /\ (pc \in {"actors", "camera", "fov", "effects"} /\ pc' # "idle") =>
            /\ IsPrefix(seq, seq')
            /\ PhaseRank(pc) <= PhaseRank(pc')
    /\ pc = "finish" =>
            LET cmds == result'.scenes[Len(result'.scenes)].commands
                inserted == OffsetCommands(seq, current_tick_offset)
            IN /\ Len(cmds) = Len(inserted)
               /\ \A i, j \in 1..Len(cmds) : i < j => cmds[i].tick <= cmds[j].tick
               /\ \A k \in 1..Len(cmds) :
                     WithTick(cmds, cmds[k].tick) = WithTick(inserted, cmds[k].tick)

\* C23: the commands of a compiled scene are inserted in the order time,
\* weather, world modifications, actors with their actions, camera, effects;
\* the scene's list in the script is that list in non-decreasing tick order,
\* the commands of one tick in their order of insertion.
C23_SceneListStableSortedByTick == [][C23_Step]_vars

\* a compiled scene in which the first action of an actor follows the world
\* modification of its own tick, and a camera command precedes the world
\* modification of a later tick, inserted long before it
C23_Witness ==
    /\ result # None
    /\ \E e \in 1..Len(result.scenes) :
          LET cmds == result.scenes[e].commands
          IN /\ Len(cmds) > 5
             /\ StartsWith(cmds[3].command, "execute at @p run place structure")
             /\ StartsWith(cmds[4].command, "tp @e")
             /\ cmds[4].tick = cmds[3].tick
             /\ \E j, k \in 1..Len(cmds) :
                   /\ j < k
                   /\ cmds[j].type = "camera"
                   /\ cmds[k].command = "say [Agent] World Mod: pond"


\* the rules of C24, in their order
ModRules ==
    <<<<"castle", "minecraft:pillager_outpost">>,
      <<"village", "minecraft:village_plains">>,
      <<"house", "minecraft:plains_village_shepherds_house_1">>,
      <<"tower", "minecraft:pillager_outpost">>>>

ClaimedModCommand(label) ==
    LET hits == {r \in 1..Len(ModRules) : Contains(Lower(label), ModRules[r][1])}
    IN IF hits = {} THEN "say [Agent] World Mod: " \o label
       ELSE "execute at @p run place structure "
                \o ModRules[CHOOSE r \in hits : \A q \in hits : r <= q][2] \o " ~ ~ ~"

\* C24: a scene with k world-modification labels gets exactly k commands for
\* them after its time and weather commands, the i-th (from 0) at tick 5*i;
\* each is the structure placement of the first of the rules castle,
\* village, house, tower whose word the lower-cased label contains, or an
\* announcement of the label if none does; "ancient castle" at index 0 gives
\* the pillager_outpost placement at tick 0.
C24_WorldModsSpacedAndMatched ==
    u_pc = "returned" /\ "setting" \in DOMAIN u_input =>
        LET mods == u_input.setting.world_modifications
        IN /\ Len(u_output) = 2 + Len(mods)
           /\ \A i \in 1..Len(mods) :
                 /\ u_output[2 + i].tick = 5 * (i - 1)
                 /\ u_output[2 + i].command = ClaimedModCommand(mods[i])
           /\ (Len(mods) > 0 /\ mods[1] = "ancient castle") =>
                 /\ u_output[3].tick = 0
                 /\ u_output[3].command =
                      "execute at @p run place structure minecraft:pillager_outpost ~ ~ ~"

\* two labels compiled: one that two rules match, one that none matches
C24_Witness ==
    /\ u_pc = "returned"
    /\ "setting" \in DOMAIN u_input
    /\ u_input.setting.world_modifications = <<"Castle Village", "pond">>
    /\ u_output[3].command =
          "execute at @p run place structure minecraft:pillager_outpost ~ ~ ~"
    /\ u_output[4] = BBSCommand(5, "say [Agent] World Mod: pond", "minecraft")


\* the frame count and the frame ticks C25 states
ClaimedFrames(tick_start, tick_end) == Max(1, Min(20, (tick_end - tick_start) \div 5))

\* round(a / b) for b > 0, halves upwards
RoundDiv(a, b) == (2 * a + b) \div (2 * b)

ClaimedFrameTick(tick_start, tick_end, i, n) ==
    tick_start + RoundDiv((tick_end - tick_start) * i, n)

\* C25: an orbit or a dolly yields n + 1 keyframes, n = max(1, min(20,
\* (tick_end - tick_start) / 5)), frame i at tick_start +
\* round((tick_end - tick_start) * i / n); so the call returns, and returns
\* these frames, for every interval with tick_start <= tick_end.
C25_KeyframeCountAndTicks ==
    (u_pc \in {"returned", "raised"} /\ "movements" \in DOMAIN u_input) =>
        LET m == u_input.movements[1]
            n == ClaimedFrames(m.tick_start, m.tick_end)
        IN m.tick_start <= m.tick_end =>
           /\ u_pc = "returned"
           /\ Len(u_output) = n + 1
           /\ \A i \in 0..n :
                 u_output[i + 1].tick = ClaimedFrameTick(m.tick_start, m.tick_end, i, n)


\* the prefixes of rule (2) of C26, in its order
ClaimedPrefixes == <<"zombie", "creeper", "skeleton", "spider", "blaze", "ghast", "slime">>

\* the identifier the rules of C26 give a declared type and a display name
ClaimedEntityId(declared_type, display_name) ==
    LET ty == Clean(declared_type)
        nm == Clean(display_name)
        hits == {q \in 1..Len(ClaimedPrefixes) : Contains(nm, ClaimedPrefixes[q])}
    IN CASE ty \notin {"unknown", "actor"} /\ ~Contains(ty, "titan") -> "minecraft:" \o ty
         [] OTHER ->
            CASE nm \in DOMAIN titan_entities -> titan_entities[nm]
              [] OTHER ->
                 CASE Contains(nm, "titan") /\ hits # {} ->
                        "titans:" \o ClaimedPrefixes[CHOOSE q \in hits : \A r \in hits : q <= r]
                            \o "_titan"
                   [] Contains(nm, "titan") /\ hits = {} -> "titans:zombie_titan"
                   [] OTHER ->
                      CASE Contains(nm, "dragon") -> "minecraft:ender_dragon"
                        [] OTHER -> "minecraft:" \o nm

CustomNameNbt(display_name) == "{CustomName:'{\"text\":\"" \o display_name \o "\"}'}"

\* the display name differs from the declared type and is not found in the
\* resolved identifier
NameIsCustom(display_name, declared_type) ==
    /\ Lower(display_name) # Clean(declared_type)
    /\ ~Contains(ClaimedEntityId(declared_type, display_name), Lower(display_name))

\* C27: the spawn command creates the resolved entity; it carries the
\* custom-name annotation of the display name exactly when that name differs
\* from the declared type and from the resolved identifier; a dragon's spawn
\* command carries DragonPhase as well, beside the custom name if the rule
\* attaches one.
C27_SpawnCarriesCustomNameAndDragonPhase ==
    (u_pc = "returned" /\ "actions" \in DOMAIN u_input) =>
        LET display_name == Get(u_input, "name", "actor")
            declared_type == Get(u_input, "type", "unknown")
            entity_id == ClaimedEntityId(declared_type, display_name)
            cmd == u_output[1].command
        IN /\ StartsWith(cmd, "execute at @p run summon " \o entity_id \o " ")
           /\ Contains(cmd, CustomNameNbt(display_name))
                 <=> NameIsCustom(display_name, declared_type)
           /\ Contains(entity_id, "ender_dragon") => Contains(cmd, "DragonPhase:0")


\* the milliseconds execute_sequence has slept before handing over command k
RECURSIVE SleptUpTo(_, _)
SleptUpTo(sleeps, k) ==
    IF sleeps = <<>> THEN 0
    ELSE (IF Head(sleeps).before <= k THEN Head(sleeps).ms ELSE 0)
            + SleptUpTo(Tail(sleeps), k)

\* C28: in realtime mode the time slept before a command of tick T is
\* submitted is T * tick_delay_ms, comments and placeholders in the list or
\* not: no interval of ticks is waited for twice.
C28_PacingMatchesLogicalTime ==
    realtime =>
        \A k \in 1..Len(submitted) :
            SleptUpTo(slept, submitted[k].at)
                = Get(sorted_cmds[submitted[k].at], "tick", 0) * tick_delay_ms


\* C29: the selector of an actor's later action finds the entity its spawn
\* created: a selector by name @e[name=N] goes with a spawn command that
\* carries the custom name N, a selector by type @e[type=T] with a spawn
\* command that creates T.
C29_SelectorFindsSpawnedEntity ==
    (u_pc = "returned" /\ "actions" \in DOMAIN u_input) =>
        LET display_name == Get(u_input, "name", "actor")
            declared_type == Get(u_input, "type", "unknown")
            selector == GetTargetSelector(display_name, declared_type)
            spawn == u_output[1].command
        IN /\ u_output[2].command = "tp " \o selector \o " 0 64 0"
           /\ StartsWith(selector, "@e[name=") =>
                 /\ selector = "@e[name=\"" \o display_name \o "\",sort=nearest,limit=1]"
                 /\ Contains(spawn, CustomNameNbt(display_name))
           /\ StartsWith(selector, "@e[type=") =>
                 \E T \in {EntityId(Clean(declared_type), Clean(display_name))} :
                    /\ selector = "@e[type=" \o T \o ",sort=nearest,limit=1]"
                    /\ StartsWith(spawn, "execute at @p run summon " \o T \o " ")


\* C30: a script the agent holds was generated from the storyboard it holds,
\* so export_to_files and execute_via_rcon never act on the commands of an
\* earlier storyboard; and generate_commands, export_to_files and
\* execute_via_rcon that lack their prerequisite raise and leave storyboard
\* and script as they were.
C30_ScriptBelongsToStoryboard ==
    /\ a_script # None =>
          ~Falsy(a_storyboard) /\ a_script = FullScript(a_storyboard)
    /\ a_acted # None =>
          ~Falsy(a_acted.storyboard) /\ a_acted.script = FullScript(a_acted.storyboard)

====
